---------------------------- MODULE Spec2Model ----------------------------
(***************************************************************************)
(* Model of the PDF processor service (pdf-processor.js): validatePDF,     *)
(* extractTextFromPDF, chunkText, detectDocumentType and                   *)
(* preparePDFForAnalysis.                                                  *)
(*                                                                         *)
(* Representation of JavaScript values                                     *)
(*   string        a sequence of one-character strings, <<"a", ".", " ">>; *)
(*                 a character outside ASCII, or one the string syntax     *)
(*                 cannot write, is the piece that names its code point,   *)
(*                 "U+00A0"                                                *)
(*   text argument [t |-> "string", v |-> chars] or a non-string value     *)
(*                 [t |-> "null" / "number", v |-> <<>>]                   *)
(*   option field  <<>> when the property is absent (undefined), <<n>>     *)
(*                 when it is supplied with the number n                   *)
(*   Error message a sequence of string tokens; the message is their       *)
(*                 concatenation, and `+` / template literals are \o       *)
(*   outcome       [kind |-> "return", value |-> v] or                     *)
(*                 [kind |-> "throw", message |-> m]                       *)
(* Offsets (startChar, endChar, lastIndexOf) are 0-based as in the source; *)
(* the character at offset i of s is s[i + 1].                             *)
(***************************************************************************)
EXTENDS Integers, Sequences, FiniteSets, TLC

(***************************************************************************)
(* Bounds of the model.                                                    *)
(***************************************************************************)
MaxTextLen == 6
MaxChunkSize == 4
MaxOverlap == 3

(***************************************************************************)
(* Program constants.                                                      *)
(***************************************************************************)
MAX_PDF_SIZE == 50 * 1024 * 1024
MIN_TEXT_THRESHOLD == 50
DEFAULT_CHUNK_SIZE == 100000
DEFAULT_CHUNK_OVERLAP == 500

(***************************************************************************)
(* Outcomes of a call.                                                     *)
(***************************************************************************)
Return(v) == [kind |-> "return", value |-> v]
Throw(m) == [kind |-> "throw", message |-> m]
NoOutcome == [kind |-> "none"]

JsString(s) == [t |-> "string", v |-> s]
JsNull == [t |-> "null", v |-> <<>>]

Min(a, b) == IF a <= b THEN a ELSE b

(***************************************************************************)
(* options.x || dflt : the default replaces an absent property and every   *)
(* falsy number (0).                                                       *)
(***************************************************************************)
OrDefault(opt, dflt) ==
  IF opt = <<>> THEN dflt
  ELSE IF opt[1] = 0 THEN dflt
  ELSE opt[1]

(***************************************************************************)
(* String.prototype.lastIndexOf(pat, from): the greatest 0-based offset    *)
(* i <= from at which pat occurs in s, or -1.                              *)
(***************************************************************************)
LastIndexOf(s, pat, from) ==
  LET hits == {i \in 0..Min(from, Len(s) - Len(pat)) :
                 SubSeq(s, i + 1, i + Len(pat)) = pat}
  IN IF hits = {} THEN -1
     ELSE CHOOSE i \in hits : \A j \in hits : j <= i

ParagraphBreak == <<"\n", "\n">>
SentenceBreak == <<".", " ">>

\* the greatest power of two that is at most n, for n >= 1
RECURSIVE Binade(_)
Binade(n) == IF n < 2 THEN 1 ELSE 2 * Binade(n \div 2)

(***************************************************************************)
(* x > start + chunkSize * 0.7, in double arithmetic, for integers x,      *)
(* start >= 0 and chunkSize >= 1.  The double 0.7 is 0.7 - 0.4 * 2^-53.    *)
(* When chunkSize is not a multiple of 10 the exact product is at least    *)
(* 0.1 away from every integer and the roundings change nothing.  When     *)
(* chunkSize = 10 * k, the exact product 7 * k lies in [b, 2 * b) for the  *)
(* power of two b, where doubles are b * 2^-52 apart, and the product      *)
(* with the double 0.7 is 7 * k - 4 * k * 2^-53: it is rounded to the      *)
(* double just below 7 * k when 4 * k > b (more than half a step below)    *)
(* and to 7 * k otherwise (a tie goes to the even 7 * k).  Adding start    *)
(* to the double just below 7 * k is exact when start + 7 * k <= 2 * b,    *)
(* and is rounded up to start + 7 * k when the sum lies beyond 2 * b,      *)
(* where doubles are further apart.                                        *)
(***************************************************************************)
PastThreshold(x, start, chunkSize) ==
  IF chunkSize % 10 = 0
  THEN LET product == 7 * (chunkSize \div 10)
           b == Binade(product)
           below == /\ 4 * (chunkSize \div 10) > b
                    /\ start + product <= 2 * b
       IN IF below THEN x >= start + product ELSE x > start + product
  ELSE 10 * x > 10 * start + 7 * chunkSize

(***************************************************************************)
(* The end offset of the chunk that starts at start (loop body, the        *)
(* boundary search).                                                       *)
(***************************************************************************)
ChunkEnd(s, chunkSize, start) ==
  LET end == Min(start + chunkSize, Len(s))
  IN IF end < Len(s)
     THEN LET paragraphBreak == LastIndexOf(s, ParagraphBreak, end)
              sentenceBreak == LastIndexOf(s, SentenceBreak, end)
          IN IF PastThreshold(paragraphBreak, start, chunkSize)
             THEN paragraphBreak + 2
             ELSE IF PastThreshold(sentenceBreak, start, chunkSize)
                  THEN sentenceBreak + 2
                  ELSE end
     ELSE end

\* A faulty advance without the non-progress guard.
NextStart_NoGuard(end, overlap, lastStartChar) == end - overlap

(***************************************************************************)
(* The start of the next iteration, with the non-progress guard.           *)
(***************************************************************************)
NextStart(end, overlap, lastStartChar) ==
  IF end - overlap <= lastStartChar THEN end ELSE end - overlap

(***************************************************************************)
(* The while loop of chunkText: chunks emitted from offset start on.       *)
(***************************************************************************)
RECURSIVE ChunkLoop(_, _, _, _, _)
ChunkLoop(s, chunkSize, overlap, start, chunks) ==
  IF start < Len(s)
  THEN LET end == ChunkEnd(s, chunkSize, start)
           chunk == [text |-> SubSeq(s, start + 1, end),
                     index |-> Len(chunks),
                     total |-> 0,
                     startChar |-> start,
                     endChar |-> end]
       IN ChunkLoop(s, chunkSize, overlap,
                    NextStart(end, overlap, start), Append(chunks, chunk))
  ELSE chunks

\* A faulty fill that leaves the total the loop wrote.
FillTotal_Unfilled(chunks) ==
  [i \in 1..Len(chunks) |-> [chunks[i] EXCEPT !.total = 0]]

FillTotal(chunks) ==
  [i \in 1..Len(chunks) |-> [chunks[i] EXCEPT !.total = Len(chunks)]]

\* A faulty chunkText that validates the options before it looks at the text.
chunkText_OptionsFirst(text, options) ==
  LET chunkSize == OrDefault(options.chunkSize, DEFAULT_CHUNK_SIZE)
      overlap == OrDefault(options.overlap, DEFAULT_CHUNK_OVERLAP)
  IN IF chunkSize <= 0
     THEN Throw(<<"chunkSize must be a positive number">>)
     ELSE IF overlap >= chunkSize
     THEN Throw(<<"overlap must be less than chunkSize">>)
     ELSE IF text.t # "string" \/ text.v = <<>>
     THEN Return(<<>>)
     ELSE IF Len(text.v) <= chunkSize
     THEN Return(<<[text |-> text.v, index |-> 0, total |-> 1,
                    startChar |-> 0, endChar |-> Len(text.v)]>>)
     ELSE Return(FillTotal(ChunkLoop(text.v, chunkSize, overlap, 0, <<>>)))

(***************************************************************************)
(* chunkText(text, options)                                                *)
(***************************************************************************)
chunkText(text, options) ==
  IF text.t # "string" \/ text.v = <<>>
  THEN Return(<<>>)
  ELSE LET chunkSize == OrDefault(options.chunkSize, DEFAULT_CHUNK_SIZE)
           overlap == OrDefault(options.overlap, DEFAULT_CHUNK_OVERLAP)
       IN IF chunkSize <= 0
          THEN Throw(<<"chunkSize must be a positive number">>)
          ELSE IF overlap >= chunkSize
          THEN Throw(<<"overlap must be less than chunkSize">>)
          ELSE IF Len(text.v) <= chunkSize
          THEN Return(<<[text |-> text.v, index |-> 0, total |-> 1,
                         startChar |-> 0, endChar |-> Len(text.v)]>>)
          ELSE Return(FillTotal(ChunkLoop(text.v, chunkSize, overlap, 0, <<>>)))

(***************************************************************************)
(* pdfBuffer arguments.  A Buffer is [t |-> "buffer", length |-> n,        *)
(* head |-> its first min(8, n) bytes]; anything else is not a Buffer      *)
(* ("null" is falsy, "string" is a truthy non-Buffer that has a length).   *)
(* A byte is the piece of the character with its code: bytes 0x80 to 0xFF  *)
(* are the pieces "U+0080" to "U+00FF".                                    *)
(***************************************************************************)
IsBuffer(b) == b.t = "buffer"
IsFalsy(b) == b.t = "null"

\* the bytes 0x80..0xFF and, in the same order, the characters 0x00..0x7F
HighBytes == <<
  "U+0080", "U+0081", "U+0082", "U+0083", "U+0084", "U+0085", "U+0086",
  "U+0087", "U+0088", "U+0089", "U+008A", "U+008B", "U+008C", "U+008D",
  "U+008E", "U+008F", "U+0090", "U+0091", "U+0092", "U+0093", "U+0094",
  "U+0095", "U+0096", "U+0097", "U+0098", "U+0099", "U+009A", "U+009B",
  "U+009C", "U+009D", "U+009E", "U+009F", "U+00A0", "U+00A1", "U+00A2",
  "U+00A3", "U+00A4", "U+00A5", "U+00A6", "U+00A7", "U+00A8", "U+00A9",
  "U+00AA", "U+00AB", "U+00AC", "U+00AD", "U+00AE", "U+00AF", "U+00B0",
  "U+00B1", "U+00B2", "U+00B3", "U+00B4", "U+00B5", "U+00B6", "U+00B7",
  "U+00B8", "U+00B9", "U+00BA", "U+00BB", "U+00BC", "U+00BD", "U+00BE",
  "U+00BF", "U+00C0", "U+00C1", "U+00C2", "U+00C3", "U+00C4", "U+00C5",
  "U+00C6", "U+00C7", "U+00C8", "U+00C9", "U+00CA", "U+00CB", "U+00CC",
  "U+00CD", "U+00CE", "U+00CF", "U+00D0", "U+00D1", "U+00D2", "U+00D3",
  "U+00D4", "U+00D5", "U+00D6", "U+00D7", "U+00D8", "U+00D9", "U+00DA",
  "U+00DB", "U+00DC", "U+00DD", "U+00DE", "U+00DF", "U+00E0", "U+00E1",
  "U+00E2", "U+00E3", "U+00E4", "U+00E5", "U+00E6", "U+00E7", "U+00E8",
  "U+00E9", "U+00EA", "U+00EB", "U+00EC", "U+00ED", "U+00EE", "U+00EF",
  "U+00F0", "U+00F1", "U+00F2", "U+00F3", "U+00F4", "U+00F5", "U+00F6",
  "U+00F7", "U+00F8", "U+00F9", "U+00FA", "U+00FB", "U+00FC", "U+00FD",
  "U+00FE", "U+00FF"
>>
AsciiCharacters == <<
  "U+0000", "U+0001", "U+0002", "U+0003", "U+0004", "U+0005", "U+0006",
  "U+0007", "U+0008", "\t", "\n", "U+000B", "\f", "\r", "U+000E", "U+000F",
  "U+0010", "U+0011", "U+0012", "U+0013", "U+0014", "U+0015", "U+0016",
  "U+0017", "U+0018", "U+0019", "U+001A", "U+001B", "U+001C", "U+001D",
  "U+001E", "U+001F", " ", "!", "\"", "#", "$", "%", "&", "'", "(", ")",
  "*", "+", ",", "-", ".", "/", "0", "1", "2", "3", "4", "5", "6", "7",
  "8", "9", ":", ";", "<", "=", ">", "?", "@", "A", "B", "C", "D", "E",
  "F", "G", "H", "I", "J", "K", "L", "M", "N", "O", "P", "Q", "R", "S",
  "T", "U", "V", "W", "X", "Y", "Z", "[", "\\", "]", "^", "_", "U+0060", "a",
  "b", "c", "d", "e", "f", "g", "h", "i", "j", "k", "l", "m", "n", "o",
  "p", "q", "r", "s", "t", "u", "v", "w", "x", "y", "z", "{", "|", "}",
  "~", "U+007F"
>>

\* Decoding a byte as 'ascii' clears its high bit.
AsciiDecode(byte) ==
  IF \E i \in 1..128 : HighBytes[i] = byte
  THEN AsciiCharacters[CHOOSE i \in 1..128 : HighBytes[i] = byte]
  ELSE byte

\* pdfBuffer.slice(0, 5).toString('ascii')
Header(pdfBuffer) ==
  [i \in 1..Min(5, Len(pdfBuffer.head)) |-> AsciiDecode(pdfBuffer.head[i])]
PDF_MAGIC == <<"%", "P", "D", "F", "-">>

\* (bytes / (1024 * 1024)).toFixed(1): bytes / 2^20 is exact, toFixed rounds
\* the tenths to nearest, the larger on a tie.
ToFixed1MB(bytes) ==
  LET tenths == (bytes * 20 + 1024 * 1024) \div (2 * 1024 * 1024)
  IN <<ToString(tenths \div 10), ".", ToString(tenths % 10)>>

MaxMB == <<ToString(MAX_PDF_SIZE \div (1024 * 1024))>>

\* error.message.includes('Invalid'); messages are cut so that every
\* occurrence of "Invalid" is a piece of its own.
Includes(message, piece) == \E i \in 1..Len(message) : message[i] = piece

\* A faulty validatePDF that also rejects a buffer of exactly MAX_PDF_SIZE.
validatePDF_checks_SizeInclusive(pdfBuffer) ==
  IF IsFalsy(pdfBuffer) \/ ~IsBuffer(pdfBuffer)
  THEN Return([isValid |-> FALSE, fileSize |-> 0, pageCount |-> 0,
               error |-> JsString(<<"Input must be a Buffer containing PDF data">>)])
  ELSE IF pdfBuffer.length = 0
  THEN Return([isValid |-> FALSE, fileSize |-> 0, pageCount |-> 0,
               error |-> JsString(<<"PDF buffer is empty">>)])
  ELSE IF pdfBuffer.length >= MAX_PDF_SIZE
  THEN Return([isValid |-> FALSE, fileSize |-> pdfBuffer.length, pageCount |-> 0,
               error |-> JsString(<<"File size (">> \o ToFixed1MB(pdfBuffer.length)
                                  \o <<" MB) exceeds maximum (">> \o MaxMB
                                  \o <<" MB)">>)])
  ELSE IF Header(pdfBuffer) # PDF_MAGIC
  THEN Return([isValid |-> FALSE, fileSize |-> pdfBuffer.length, pageCount |-> 0,
               error |-> JsString(<<"File does not have a valid PDF header. Ensure this is a PDF file.">>)])
  ELSE NoOutcome

(***************************************************************************)
(* validatePDF, up to the structural load: the record returned by the      *)
(* first failing check, or NoOutcome when all four checks pass and         *)
(* PDFDocument.load is awaited.                                            *)
(***************************************************************************)
validatePDF_checks(pdfBuffer) ==
  IF IsFalsy(pdfBuffer) \/ ~IsBuffer(pdfBuffer)
  THEN Return([isValid |-> FALSE, fileSize |-> 0, pageCount |-> 0,
               error |-> JsString(<<"Input must be a Buffer containing PDF data">>)])
  ELSE IF pdfBuffer.length = 0
  THEN Return([isValid |-> FALSE, fileSize |-> 0, pageCount |-> 0,
               error |-> JsString(<<"PDF buffer is empty">>)])
  ELSE IF pdfBuffer.length > MAX_PDF_SIZE
  THEN Return([isValid |-> FALSE, fileSize |-> pdfBuffer.length, pageCount |-> 0,
               error |-> JsString(<<"File size (">> \o ToFixed1MB(pdfBuffer.length)
                                  \o <<" MB) exceeds maximum (">> \o MaxMB
                                  \o <<" MB)">>)])
  ELSE IF Header(pdfBuffer) # PDF_MAGIC
  THEN Return([isValid |-> FALSE, fileSize |-> pdfBuffer.length, pageCount |-> 0,
               error |-> JsString(<<"File does not have a valid PDF header. Ensure this is a PDF file.">>)])
  ELSE NoOutcome

\* A faulty validatePDF whose catch block leaves the error unset.
validatePDF_loaded_NoError(pdfBuffer, loaded) ==
  [isValid |-> loaded.kind = "return", fileSize |-> pdfBuffer.length,
   pageCount |-> IF loaded.kind = "return" THEN loaded.value ELSE 0,
   error |-> JsNull]

(***************************************************************************)
(* validatePDF, once PDFDocument.load has settled with outcome loaded      *)
(* (Return(pageCount) or Throw(message)).                                  *)
(***************************************************************************)
validatePDF_loaded(pdfBuffer, loaded) ==
  IF loaded.kind = "return"
  THEN [isValid |-> TRUE, fileSize |-> pdfBuffer.length,
        pageCount |-> loaded.value, error |-> JsNull]
  ELSE [isValid |-> FALSE, fileSize |-> pdfBuffer.length, pageCount |-> 0,
        error |-> JsString(<<"PDF structure is corrupted or unreadable: ">>
                           \o loaded.message)]

(***************************************************************************)
(* extractTextFromPDF, up to the text extraction: the error thrown by the  *)
(* first failing check, or NoOutcome when pdfParse is awaited.             *)
(***************************************************************************)
extractTextFromPDF_checks(pdfBuffer) ==
  IF IsFalsy(pdfBuffer) \/ ~IsBuffer(pdfBuffer)
  THEN Throw(<<"Invalid", " input: pdfBuffer must be a Buffer">>)
  ELSE IF pdfBuffer.length = 0
  THEN Throw(<<"Invalid", " input: PDF buffer is empty">>)
  ELSE IF pdfBuffer.length > MAX_PDF_SIZE
  THEN Throw(<<"PDF file size (">> \o ToFixed1MB(pdfBuffer.length) \o <<" MB) ">>
             \o <<"exceeds maximum allowed size (">> \o MaxMB \o <<" MB)">>)
  ELSE NoOutcome

(***************************************************************************)
(* The characters that String.prototype.trim strips and that \s matches:   *)
(* WhiteSpace (tab, vertical tab, form feed, space, no-break space, the    *)
(* byte order mark and the space separators) and LineTerminator.  A        *)
(* character that the string syntax cannot write is the piece that names   *)
(* its code point: the vertical tab is "U+000B".                           *)
(***************************************************************************)
LineTerminators == {"\n", "\r", "U+2028", "U+2029"}
Whitespace ==
  {"\t", "U+000B", "\f", " ", "U+00A0", "U+FEFF",
   "U+1680", "U+2000", "U+2001", "U+2002", "U+2003", "U+2004", "U+2005",
   "U+2006", "U+2007", "U+2008", "U+2009", "U+200A", "U+202F", "U+205F",
   "U+3000"} \cup LineTerminators

\* String.prototype.trim
RECURSIVE TrimStart(_)
TrimStart(s) ==
  IF s # <<>> /\ Head(s) \in Whitespace THEN TrimStart(Tail(s)) ELSE s
RECURSIVE TrimEnd(_)
TrimEnd(s) ==
  IF s # <<>> /\ s[Len(s)] \in Whitespace
  THEN TrimEnd(SubSeq(s, 1, Len(s) - 1)) ELSE s
Trim(s) == TrimEnd(TrimStart(s))

\* x || '' for an optional string: absent and '' both give ''
OrEmpty(opt) == IF opt = <<>> THEN <<>> ELSE opt[1]
\* parsed.info?.Field || ''
InfoField(info, field) == IF info = <<>> THEN <<>> ELSE OrEmpty(info[1][field])

\* A faulty extractor that compares the length of the untrimmed text.
extractTextFromPDF_parsed_UntrimmedLength(parsed) ==
  IF parsed.kind = "return"
  THEN LET text == OrEmpty(parsed.value.text)
           trimmedText == Trim(text)
           hasTextLayer == Len(text) >= MIN_TEXT_THRESHOLD
       IN Return([text |-> trimmedText,
                  pageCount |-> OrDefault(parsed.value.numpages, 0),
                  hasTextLayer |-> hasTextLayer,
                  metadata |-> [title |-> InfoField(parsed.value.info, "Title"),
                                author |-> InfoField(parsed.value.info, "Author"),
                                creator |-> InfoField(parsed.value.info, "Creator"),
                                producer |-> InfoField(parsed.value.info, "Producer")]])
  ELSE IF Includes(parsed.message, "Invalid")
  THEN Throw(parsed.message)
  ELSE Throw(<<"Failed to parse PDF: ">> \o parsed.message)

(***************************************************************************)
(* extractTextFromPDF, once pdfParse has settled with outcome parsed       *)
(* (Return([text, numpages, info]) or Throw(message)).                     *)
(***************************************************************************)
extractTextFromPDF_parsed(parsed) ==
  IF parsed.kind = "return"
  THEN LET text == OrEmpty(parsed.value.text)
           trimmedText == Trim(text)
           hasTextLayer == Len(trimmedText) >= MIN_TEXT_THRESHOLD
       IN Return([text |-> trimmedText,
                  pageCount |-> OrDefault(parsed.value.numpages, 0),
                  hasTextLayer |-> hasTextLayer,
                  metadata |-> [title |-> InfoField(parsed.value.info, "Title"),
                                author |-> InfoField(parsed.value.info, "Author"),
                                creator |-> InfoField(parsed.value.info, "Creator"),
                                producer |-> InfoField(parsed.value.info, "Producer")]])
  ELSE IF Includes(parsed.message, "Invalid")
  THEN Throw(parsed.message)
  ELSE Throw(<<"Failed to parse PDF: ">> \o parsed.message)

(***************************************************************************)
(* Regular expressions.  A pattern is a sequence of elements               *)
(* [cls, neg, min, max]: between min and max characters, greedy            *)
(* (max = -1: unbounded), each inside the class cls (neg = FALSE) or       *)
(* outside it (neg = TRUE).  The i flag is IgnoreCase, which adds to every *)
(* class the characters that canonicalize to the same character.           *)
(***************************************************************************)
LowerCase == <<"a", "b", "c", "d", "e", "f", "g", "h", "i", "j", "k", "l", "m",
               "n", "o", "p", "q", "r", "s", "t", "u", "v", "w", "x", "y", "z">>
UpperCase == <<"A", "B", "C", "D", "E", "F", "G", "H", "I", "J", "K", "L", "M",
               "N", "O", "P", "Q", "R", "S", "T", "U", "V", "W", "X", "Y", "Z">>
Digits == {"0", "1", "2", "3", "4", "5", "6", "7", "8", "9"}
UpperLetters == {UpperCase[i] : i \in 1..26}
LowerLetters == {LowerCase[i] : i \in 1..26}

(***************************************************************************)
(* The characters that the i flag takes for c.  Without the u flag two     *)
(* characters match when toUpperCase maps them to the same single          *)
(* character, and a character outside ASCII is never mapped into ASCII     *)
(* (U+017F and U+212A match no ASCII letter).  The classes of the source   *)
(* hold ASCII characters and U+00E2, U+20AC, U+201C; of these only the     *)
(* ASCII letters and U+00E2 (upper case U+00C2) have a second form.        *)
(***************************************************************************)
CaseForms(c) ==
  IF c \in UpperLetters
  THEN {c, LowerCase[CHOOSE i \in 1..26 : UpperCase[i] = c]}
  ELSE IF c \in LowerLetters
  THEN {c, UpperCase[CHOOSE i \in 1..26 : LowerCase[i] = c]}
  ELSE IF c = "U+00E2" THEN {c, "U+00C2"}
  ELSE IF c = "U+00C2" THEN {c, "U+00E2"}
  ELSE {c}
FoldClass(cls) == UNION {CaseForms(c) : c \in cls}
IgnoreCase(re) == [k \in 1..Len(re) |-> [re[k] EXCEPT !.cls = FoldClass(@)]]

One(cls) == [cls |-> cls, neg |-> FALSE, min |-> 1, max |-> 1]
Star(cls) == [cls |-> cls, neg |-> FALSE, min |-> 0, max |-> -1]
Plus(cls) == [cls |-> cls, neg |-> FALSE, min |-> 1, max |-> -1]
Optional(cls) == [cls |-> cls, neg |-> FALSE, min |-> 0, max |-> 1]
Rep(cls, min, max) == [cls |-> cls, neg |-> FALSE, min |-> min, max |-> max]
Literal(w) == [i \in 1..Len(w) |-> One({w[i]})]
\* .* : any number of characters, none of them a line terminator
AnyChars == [cls |-> LineTerminators, neg |-> TRUE, min |-> 0, max |-> -1]

\* c is a character that the element el takes
Takes(el, c) == (c \in el.cls) # el.neg

\* the number of characters taken by el that follow offset pos, at most
\* cap (cap = -1: no cap)
RECURSIVE RunLength(_, _, _, _)
RunLength(s, pos, el, cap) ==
  IF cap # 0 /\ pos < Len(s) /\ Takes(el, s[pos + 1])
  THEN 1 + RunLength(s, pos + 1, el, IF cap = -1 THEN -1 ELSE cap - 1)
  ELSE 0

\* The end offsets of the matches of elements k.. of re that start at
\* offset pos, in the order a backtracking matcher finds them.
RECURSIVE MatchEnds(_, _, _, _)
RECURSIVE MatchEndsFrom(_, _, _, _, _)
MatchEnds(re, k, s, pos) ==
  IF k > Len(re) THEN <<pos>>
  ELSE MatchEndsFrom(re, k, s, pos, RunLength(s, pos, re[k], re[k].max))
MatchEndsFrom(re, k, s, pos, n) ==
  IF n < re[k].min THEN <<>>
  ELSE MatchEnds(re, k + 1, s, pos + n) \o MatchEndsFrom(re, k, s, pos, n - 1)

\* RegExp.prototype.test of a pattern without the global flag; alts is
\* the set of alternatives of the pattern
Test(alts, s) ==
  \E re \in alts : \E pos \in 0..Len(s) : MatchEnds(re, 1, s, pos) # <<>>

(***************************************************************************)
(* The section catalog.                                                    *)
(***************************************************************************)
WS == Star(Whitespace)
Section == Literal(<<"s", "e", "c", "t", "i", "o", "n">>)
\* /section\s*NUM/i
SectionPattern(num) == {IgnoreCase(Section \o <<WS>> \o Literal(num))}
\* /section\s*NUM\s*\(\s*SUB\s*\)/i
SubSectionPattern(num, sub) ==
  {IgnoreCase(Section \o <<WS>> \o Literal(num) \o <<WS>> \o Literal(<<"(">>)
              \o <<WS>> \o Literal(sub) \o <<WS>> \o Literal(<<")">>))}

IT_SECTION_PATTERNS == <<
  [pattern |-> SubSectionPattern(<<"1", "4", "3">>, <<"1">>),
   type |-> "Intimation", section |-> "143(1)"],
  [pattern |-> SubSectionPattern(<<"1", "4", "3">>, <<"2">>),
   type |-> "Scrutiny Notice", section |-> "143(2)"],
  [pattern |-> SubSectionPattern(<<"1", "4", "3">>, <<"3">>),
   type |-> "Assessment Order", section |-> "143(3)"],
  [pattern |-> SectionPattern(<<"1", "4", "4">>),
   type |-> "Best Judgment Assessment", section |-> "144"],
  [pattern |-> SectionPattern(<<"1", "4", "7">>),
   type |-> "Reassessment", section |-> "147"],
  [pattern |-> SectionPattern(<<"1", "4", "8">>),
   type |-> "Reassessment Notice", section |-> "148"],
  [pattern |-> SectionPattern(<<"1", "4", "8", "A">>),
   type |-> "Reassessment Notice", section |-> "148A"],
  [pattern |-> SectionPattern(<<"1", "5", "4">>),
   type |-> "Rectification Order", section |-> "154"],
  [pattern |-> SectionPattern(<<"1", "5", "6">>),
   type |-> "Demand Notice", section |-> "156"],
  [pattern |-> SectionPattern(<<"2", "4", "5">>),
   type |-> "Set Off Notice", section |-> "245"],
  [pattern |-> SectionPattern(<<"2", "4", "6", "A">>),
   type |-> "Appeal", section |-> "246A"],
  [pattern |-> SectionPattern(<<"2", "5", "0">>),
   type |-> "CIT(A) Order", section |-> "250"],
  [pattern |-> SectionPattern(<<"2", "5", "4">>),
   type |-> "ITAT Order", section |-> "254"],
  [pattern |-> SectionPattern(<<"2", "6", "3">>),
   type |-> "Revision Order", section |-> "263"],
  [pattern |-> SectionPattern(<<"2", "6", "4">>),
   type |-> "Revision Order", section |-> "264"],
  [pattern |-> SectionPattern(<<"2", "7", "1">>),
   type |-> "Penalty Notice", section |-> "271"],
  [pattern |-> SectionPattern(<<"2", "7", "4">>),
   type |-> "Penalty Notice", section |-> "274"]
>>

\* /[A-Z]{5}[0-9]{4}[A-Z]/g
PAN_REGEX == <<Rep(UpperLetters, 5, 5), Rep(Digits, 4, 4), One(UpperLetters)>>

(***************************************************************************)
(* Matching with the global flag.  A pattern with one capture group at     *)
(* its end is a sequence of alternative prefixes (in the order the         *)
(* alternation lists them) followed by the elements of the group.          *)
(***************************************************************************)
\* the first match of capture after one of the prefix ends ps
RECURSIVE CaptureAfter(_, _, _)
CaptureAfter(ps, capture, s) ==
  IF ps = <<>> THEN <<>>
  ELSE LET qs == MatchEnds(capture, 1, s, Head(ps))
       IN IF qs # <<>>
          THEN <<[from |-> Head(ps), to |-> Head(qs)]>>
          ELSE CaptureAfter(Tail(ps), capture, s)

\* the match that starts at offset pos, if any
RECURSIVE ExecAt(_, _, _, _)
ExecAt(prefixes, capture, s, pos) ==
  IF prefixes = <<>> THEN <<>>
  ELSE LET m == CaptureAfter(MatchEnds(Head(prefixes), 1, s, pos),
                             capture, s)
       IN IF m # <<>> THEN m
          ELSE ExecAt(Tail(prefixes), capture, s, pos)

\* RegExp.prototype.exec from lastIndex: <<>> (null) or the match, with
\* the offsets [from, to) of the group; to is the new lastIndex
Exec(prefixes, capture, s, lastIndex) ==
  LET starts == {pos \in lastIndex..Len(s) :
                   ExecAt(prefixes, capture, s, pos) # <<>>}
  IN IF starts = {} THEN <<>>
     ELSE ExecAt(prefixes, capture, s,
                 CHOOSE pos \in starts : \A other \in starts : pos <= other)

\* while ((m = regex.exec(s)) !== null) acc.push(group 1), from lastIndex
RECURSIVE ExecLoop(_, _, _, _, _)
ExecLoop(prefixes, capture, s, lastIndex, acc) ==
  LET m == Exec(prefixes, capture, s, lastIndex)
  IN IF m = <<>> THEN acc
     ELSE ExecLoop(prefixes, capture, s, m[1].to,
                   Append(acc, SubSeq(s, m[1].from + 1, m[1].to)))

(***************************************************************************)
(* The cursors (lastIndex) of the module-level patterns that carry the     *)
(* global flag.  A catalog or keyword pattern has no global flag: test     *)
(* neither reads nor writes its lastIndex.                                 *)
(***************************************************************************)
InitialLastIndex == [PAN_REGEX |-> 0, AY_REGEX |-> 0]

\* A faulty match that runs one exec from the cursor and leaves the cursor
\* behind the match, as RegExp.prototype.test does on a global pattern.
StringMatch_SingleExec(re, s, lastIndex) ==
  LET m == Exec(<< <<>> >>, re, s, lastIndex)
  IN IF m = <<>> THEN [matches |-> <<>>, lastIndex |-> 0]
     ELSE [matches |-> <<SubSeq(s, m[1].from + 1, m[1].to)>>,
           lastIndex |-> m[1].to]

\* A faulty match that scans from the cursor without resetting it and
\* leaves it at the end of the text when it found something.
StringMatch_KeepsCursor(re, s, lastIndex) ==
  LET matches == ExecLoop(<< <<>> >>, re, s, lastIndex, <<>>)
  IN [matches |-> matches,
      lastIndex |-> IF matches = <<>> THEN lastIndex ELSE Len(s)]

\* s.match(re) for a global re whose cursor is lastIndex: the cursor is set
\* to 0, exec runs until it returns null, which leaves the cursor at 0
StringMatch(re, s, lastIndex) ==
  [matches |-> ExecLoop(<< <<>> >>, re, s, 0, <<>>), lastIndex |-> 0]

\* [...new Set(list)]: the distinct values in first-seen order
RECURSIVE Dedupe(_)
Dedupe(list) ==
  IF list = <<>> THEN <<>>
  ELSE LET rest == Dedupe(SubSeq(list, 1, Len(list) - 1))
           last == list[Len(list)]
       IN IF \E i \in 1..Len(rest) : rest[i] = last THEN rest
          ELSE Append(rest, last)

\* s.replace(/\s+/g, '')
RECURSIVE RemoveWhitespace(_)
RemoveWhitespace(s) ==
  IF s = <<>> THEN <<>>
  ELSE IF Head(s) \in Whitespace THEN RemoveWhitespace(Tail(s))
  ELSE <<Head(s)>> \o RemoveWhitespace(Tail(s))

\* /(?:A\.?\s*Y\.?\s*|Assessment\s+Year\s*:?\s*)(\d{4}\s*[-...]\s*\d{2,4})/gi
\* The class after the hyphen holds the three characters U+00E2, U+20AC and
\* U+201C of the source text; a character outside ASCII is the piece that
\* names its code point.
AY_PREFIXES == <<
  IgnoreCase(<<One({"A"}), Optional({"."}), WS, One({"Y"}), Optional({"."}), WS>>),
  IgnoreCase(Literal(<<"A", "s", "s", "e", "s", "s", "m", "e", "n", "t">>)
             \o <<Plus(Whitespace)>> \o Literal(<<"Y", "e", "a", "r">>)
             \o <<WS, Optional({":"}), WS>>)
>>
AY_CAPTURE ==
  IgnoreCase(<<Rep(Digits, 4, 4), WS, One({"-", "U+00E2", "U+20AC", "U+201C"}),
               WS, Rep(Digits, 2, 4)>>)

\* /Form\s*No\.\s*/ , the part before the alternation
FormNo ==
  Literal(<<"F", "o", "r", "m">>) \o <<WS>> \o Literal(<<"N", "o", ".">>) \o <<WS>>

itKeywords == <<
  \* /income\s*tax/i
  {IgnoreCase(Literal(<<"i", "n", "c", "o", "m", "e">>) \o <<WS>> \o Literal(<<"t", "a", "x">>))},
  \* /assessing\s*officer/i
  {IgnoreCase(Literal(<<"a", "s", "s", "e", "s", "s", "i", "n", "g">>) \o <<WS>> \o Literal(<<"o", "f", "f", "i", "c", "e", "r">>))},
  \* /commissioner.*income\s*tax/i
  {IgnoreCase(Literal(<<"c", "o", "m", "m", "i", "s", "s", "i", "o", "n", "e", "r">>) \o <<AnyChars>> \o Literal(<<"i", "n", "c", "o", "m", "e">>) \o <<WS>> \o Literal(<<"t", "a", "x">>))},
  \* /centralized\s*processing\s*centre/i
  {IgnoreCase(Literal(<<"c", "e", "n", "t", "r", "a", "l", "i", "z", "e", "d">>) \o <<WS>> \o Literal(<<"p", "r", "o", "c", "e", "s", "s", "i", "n", "g">>) \o <<WS>> \o Literal(<<"c", "e", "n", "t", "r", "e">>))},
  \* /CPC.*Bengaluru/i
  {IgnoreCase(Literal(<<"C", "P", "C">>) \o <<AnyChars>> \o Literal(<<"B", "e", "n", "g", "a", "l", "u", "r", "u">>))},
  \* /CBDT/i
  {IgnoreCase(Literal(<<"C", "B", "D", "T">>))},
  \* /Form\s*No\.\s*(?:16|26AS|ITR)/i
  {IgnoreCase(FormNo \o Literal(<<"1", "6">>)), IgnoreCase(FormNo \o Literal(<<"2", "6", "A", "S">>)), IgnoreCase(FormNo \o Literal(<<"I", "T", "R">>))},
  \* /total\s*income/i
  {IgnoreCase(Literal(<<"t", "o", "t", "a", "l">>) \o <<WS>> \o Literal(<<"i", "n", "c", "o", "m", "e">>))},
  \* /tax\s*payable/i
  {IgnoreCase(Literal(<<"t", "a", "x">>) \o <<WS>> \o Literal(<<"p", "a", "y", "a", "b", "l", "e">>))},
  \* /assessment\s*year/i
  {IgnoreCase(Literal(<<"a", "s", "s", "e", "s", "s", "m", "e", "n", "t">>) \o <<WS>> \o Literal(<<"y", "e", "a", "r">>))}
>>

DefaultClassification ==
  [sections |-> <<>>, documentType |-> "Unknown", panNumbers |-> <<>>,
   assessmentYears |-> <<>>, isIncomeTaxDocument |-> FALSE]

\* A faulty scan of the catalog that stops at the first match.
MatchedEntries_FirstOnly(s) ==
  LET matched == SelectSeq(IT_SECTION_PATTERNS, LAMBDA e : Test(e.pattern, s))
  IN SubSeq(matched, 1, Min(1, Len(matched)))

\* the catalog entries whose pattern matches s, in catalog order
MatchedEntries(s) ==
  SelectSeq(IT_SECTION_PATTERNS, LAMBDA e : Test(e.pattern, s))

\* A faulty heuristic that is satisfied by one keyword.
isIncomeTaxDocument_OneKeyword(matchedSections, keywordMatches) ==
  Len(matchedSections) > 0 \/ keywordMatches >= 1

\* the Income-Tax heuristic
isIncomeTaxDocument(matchedSections, keywordMatches) ==
  Len(matchedSections) > 0 \/ keywordMatches >= 2

(***************************************************************************)
(* detectDocumentType(text), called when the cursors of the module-level   *)
(* patterns are lastIndex: the value it returns and the cursors it leaves. *)
(* The assessment-year scan runs on a fresh copy of AY_REGEX, whose cursor *)
(* starts at 0; the module-level AY_REGEX is only read for its source.     *)
(***************************************************************************)
detectDocumentType(text, lastIndex) ==
  IF text.t # "string" \/ text.v = <<>>
  THEN [value |-> DefaultClassification, lastIndex |-> lastIndex]
  ELSE LET s == text.v
           pan == StringMatch(PAN_REGEX, s, lastIndex.PAN_REGEX)
           matched == MatchedEntries(s)
           matchedSections == [i \in 1..Len(matched) |-> matched[i].section]
           documentType ==
             IF matched = <<>> THEN "Unknown" ELSE matched[1].type
           panMatches == pan.matches
           ayCaptures == ExecLoop(AY_PREFIXES, AY_CAPTURE, s, 0, <<>>)
           ayMatches ==
             [i \in 1..Len(ayCaptures) |-> RemoveWhitespace(ayCaptures[i])]
           keywordMatches ==
             Cardinality({k \in 1..Len(itKeywords) : Test(itKeywords[k], s)})
       IN [value |-> [sections |-> matchedSections,
                      documentType |-> documentType,
                      panNumbers |-> Dedupe(panMatches),
                      assessmentYears |-> Dedupe(ayMatches),
                      isIncomeTaxDocument |->
                        isIncomeTaxDocument(matchedSections, keywordMatches)],
           lastIndex |-> [lastIndex EXCEPT !.PAN_REGEX = pan.lastIndex]]

(***************************************************************************)
(* preparePDFForAnalysis                                                   *)
(***************************************************************************)
EmptyMetadata == [title |-> <<>>, author |-> <<>>, creator |-> <<>>, producer |-> <<>>]

\* the record both failure returns build
FailedDocument(error, pageCount, fileSize) ==
  [isValid |-> FALSE, error |-> error, text |-> <<>>, pageCount |-> pageCount,
   hasTextLayer |-> FALSE, metadata |-> EmptyMetadata,
   documentInfo |-> DefaultClassification, chunks |-> <<>>,
   fileSize |-> fileSize]

\* A faulty catch block that reports no pages, as the invalid return does.
prepare_catch_ZeroPages(pdfBuffer, validation, message) ==
  Return(FailedDocument(JsString(<<"PDF processing failed: ">> \o message),
                        0, pdfBuffer.length))

\* the value the catch block returns: error.message is message
prepare_catch(pdfBuffer, validation, message) ==
  Return(FailedDocument(JsString(<<"PDF processing failed: ">> \o message),
                        validation.pageCount, pdfBuffer.length))

\* A faulty invalid return that does not carry the validator's error.
prepare_invalid_DropsError(pdfBuffer, validation) ==
  Return(FailedDocument(JsNull, 0,
                        IF IsFalsy(pdfBuffer) THEN 0 ELSE pdfBuffer.length))

\* the return taken when validation failed
prepare_invalid(pdfBuffer, validation) ==
  Return(FailedDocument(validation.error, 0,
                        IF IsFalsy(pdfBuffer) THEN 0 ELSE pdfBuffer.length))

NullOptions == [null |-> TRUE]
IsNullOptions(options) == "null" \in DOMAIN options

(***************************************************************************)
(* Events of the trace: a call made, a library call that threw, the catch  *)
(* block of preparePDFForAnalysis entered with an error.                   *)
(***************************************************************************)
Call(name, arg) == [ev |-> "call", name |-> name, arg |-> arg]
Threw(name, message) == [ev |-> "throw", name |-> name, arg |-> message]
Returned(name, value) == [ev |-> "return", name |-> name, arg |-> value]
Caught(message) == [ev |-> "catch", name |-> "preparePDFForAnalysis", arg |-> message]

\* an error with this message reaches the catch block
prepare_caught(pdfBuffer, validation, message, events) ==
  [ret |-> prepare_catch(pdfBuffer, validation, message),
   events |-> events \o <<Caught(message)>>]

\* the outcome r of the try block, with the cursors it leaves
WithLastIndex(r, lastIndex) ==
  [ret |-> r.ret, events |-> r.events, lastIndex |-> lastIndex]

\* A faulty try block that chunks before it classifies.
prepare_extracted_ChunkFirst(pdfBuffer, options, validation, extracted, lastIndex) ==
  WithLastIndex(
  IF extracted.kind = "throw"
  THEN prepare_caught(pdfBuffer, validation, extracted.message, <<>>)
  ELSE LET text == JsString(extracted.value.text)
       IN IF IsNullOptions(options)
          THEN prepare_caught(pdfBuffer, validation,
                 <<"Cannot read properties of null (reading 'chunkSize')">>, <<>>)
          ELSE LET chunked ==
                     chunkText(text,
                       [chunkSize |-> <<OrDefault(options.chunkSize, DEFAULT_CHUNK_SIZE)>>,
                        overlap |-> <<OrDefault(options.overlap, DEFAULT_CHUNK_OVERLAP)>>])
               IN IF chunked.kind = "throw"
                  THEN prepare_caught(pdfBuffer, validation, chunked.message,
                                      <<Call("chunkText", text)>>)
                  ELSE [ret |-> Return([isValid |-> TRUE,
                                        error |-> JsNull,
                                        text |-> extracted.value.text,
                                        pageCount |-> extracted.value.pageCount,
                                        hasTextLayer |-> extracted.value.hasTextLayer,
                                        metadata |-> extracted.value.metadata,
                                        documentInfo |->
                                          detectDocumentType(text, lastIndex).value,
                                        chunks |-> chunked.value,
                                        fileSize |-> pdfBuffer.length]),
                        events |-> <<Call("chunkText", text),
                                     Call("detectDocumentType", text)>>],
  lastIndex)

(***************************************************************************)
(* The try block from the point where extractTextFromPDF has settled with  *)
(* outcome extracted, the cursors being lastIndex: the value prepare        *)
(* returns (ret), the events on the way (events) and the cursors left      *)
(* (lastIndex).                                                            *)
(***************************************************************************)
prepare_extracted(pdfBuffer, options, validation, extracted, lastIndex) ==
  IF extracted.kind = "throw"
  THEN WithLastIndex(prepare_caught(pdfBuffer, validation, extracted.message,
                                    <<>>), lastIndex)
  ELSE LET extraction == extracted.value
           text == JsString(extraction.text)
           classification == detectDocumentType(text, lastIndex)
           documentInfo == classification.value
           classified == <<Call("detectDocumentType", text)>>
       IN WithLastIndex(
          IF IsNullOptions(options)
          THEN prepare_caught(pdfBuffer, validation,
                 <<"Cannot read properties of null (reading 'chunkSize')">>,
                 classified)
          ELSE LET chunked ==
                     chunkText(text,
                       [chunkSize |-> <<OrDefault(options.chunkSize, DEFAULT_CHUNK_SIZE)>>,
                        overlap |-> <<OrDefault(options.overlap, DEFAULT_CHUNK_OVERLAP)>>])
                   events == classified \o <<Call("chunkText", text)>>
               IN IF chunked.kind = "throw"
                  THEN prepare_caught(pdfBuffer, validation, chunked.message, events)
                  ELSE [ret |-> Return([isValid |-> TRUE,
                                        error |-> JsNull,
                                        text |-> extraction.text,
                                        pageCount |-> extraction.pageCount,
                                        hasTextLayer |-> extraction.hasTextLayer,
                                        metadata |-> extraction.metadata,
                                        documentInfo |-> documentInfo,
                                        chunks |-> chunked.value,
                                        fileSize |-> pdfBuffer.length]),
                        events |-> events],
          classification.lastIndex)

(***************************************************************************)
(* extractPageRange.  A page argument is [t |-> "integer", v |-> n] or a   *)
(* value Number.isInteger rejects.                                         *)
(***************************************************************************)
IsInteger(x) == x.t = "integer"

\* the four argument checks: the error thrown, or NoOutcome
extractPageRange_checks(pdfBuffer, startPage, endPage) ==
  IF IsFalsy(pdfBuffer) \/ ~IsBuffer(pdfBuffer)
  THEN Throw(<<"Invalid", " input: pdfBuffer ", "must be", " a Buffer">>)
  ELSE IF ~IsInteger(startPage) \/ ~IsInteger(endPage)
  THEN Throw(<<"startPage and endPage ", "must be", " integers">>)
  ELSE IF startPage.v < 1
  THEN Throw(<<"startPage ", "must be", " at least 1">>)
  ELSE IF endPage.v < startPage.v
  THEN Throw(<<"endPage ", "must be", " greater than or equal to startPage">>)
  ELSE NoOutcome

\* A faulty clamp that leaves the start page as requested.
extractPageRange_clamped_StartAsGiven(startPage, endPage, totalPages) ==
  LET actualStart == startPage
      actualEnd == Min(endPage, totalPages)
  IN [totalPages |-> totalPages,
      actualStart |-> actualStart,
      actualEnd |-> actualEnd,
      pageIndices |-> [k \in 1..(actualEnd - actualStart + 1) |->
                         actualStart - 2 + k],
      copiedPages |-> <<>>]

\* the locals once the document is loaded and has totalPages pages: the
\* clamped bounds and the indices i = actualStart - 1, ..., actualEnd - 1
extractPageRange_clamped(startPage, endPage, totalPages) ==
  LET actualStart == Min(startPage, totalPages)
      actualEnd == Min(endPage, totalPages)
  IN [totalPages |-> totalPages,
      actualStart |-> actualStart,
      actualEnd |-> actualEnd,
      pageIndices |-> [k \in 1..(actualEnd - actualStart + 1) |->
                         actualStart - 2 + k],
      copiedPages |-> <<>>]

\* the catch block: error.message is message
extractPageRange_catch(message) ==
  IF Includes(message, "Invalid") \/ Includes(message, "must be")
  THEN Throw(message)
  ELSE Throw(<<"Failed to extract page range: ">> \o message)

\* the return, once pdfParse has resolved with parsed
extractPageRange_parsed(vs, parsed) ==
  Return([text |-> Trim(OrEmpty(parsed.text)),
          pageCount |-> Len(vs.copiedPages),
          startPage |-> vs.actualStart,
          endPage |-> vs.actualEnd])

(***************************************************************************)
(* A call of validatePDF, extractTextFromPDF or preparePDFForAnalysis as a *)
(* value: its entry point, arguments, position (pc), the validation it     *)
(* holds, the outcomes its two library calls settled with, the outcome of  *)
(* the function it awaits once that function has settled (awaited), and    *)
(* its own outcome.  Each operator below is one callback of the code: the  *)
(* call itself up to its first await, the continuation of validatePDF      *)
(* after the load, that of extractTextFromPDF after pdfParse, and that of  *)
(* preparePDFForAnalysis after each of its two awaits.  The function that  *)
(* awaits validatePDF or extractTextFromPDF resumes in a later callback    *)
(* than the one in which the awaited function settles.                     *)
(***************************************************************************)
DefaultOptions == [chunkSize |-> <<>>, overlap |-> <<>>]

\* the call up to its first suspension point
Begin(name, pdfBuffer, options) ==
  LET call == [fn |-> name, pdfBuffer |-> pdfBuffer, options |-> options,
               pc |-> "done", validation |-> [none |-> TRUE],
               loaded |-> NoOutcome, parsed |-> NoOutcome,
               awaited |-> NoOutcome, ret |-> NoOutcome]
      checked == IF name = "extractTextFromPDF"
                 THEN extractTextFromPDF_checks(pdfBuffer)
                 ELSE validatePDF_checks(pdfBuffer)
  IN IF checked = NoOutcome
     THEN [call EXCEPT !.pc = IF name = "extractTextFromPDF"
                               THEN "parse" ELSE "load"]
     ELSE IF name = "preparePDFForAnalysis"
     THEN [call EXCEPT !.pc = "validated", !.awaited = checked]
     ELSE [call EXCEPT !.ret = checked]

\* PDFDocument.load has settled with loaded: validatePDF resumes and
\* returns
LoadSettled(call, loaded) ==
  LET v == Return(validatePDF_loaded(call.pdfBuffer, loaded))
  IN IF call.fn = "validatePDF"
     THEN [call EXCEPT !.loaded = loaded, !.pc = "done", !.ret = v]
     ELSE [call EXCEPT !.loaded = loaded, !.pc = "validated", !.awaited = v]

\* pdfParse has settled with parsed: extractTextFromPDF resumes and
\* settles with extracted
ParseSettled(call, parsed, extracted) ==
  IF call.fn = "extractTextFromPDF"
  THEN [call EXCEPT !.parsed = parsed, !.pc = "done", !.ret = extracted]
  ELSE [call EXCEPT !.parsed = parsed, !.pc = "extracted",
                    !.awaited = extracted]

\* preparePDFForAnalysis resumes with the outcome of the function it
\* awaited, the cursors of the module-level patterns being lastIndex
Resumed(call, lastIndex) ==
  IF call.pc = "validated"
  THEN LET v == call.awaited.value
           resumed == [call EXCEPT !.validation = v, !.awaited = NoOutcome]
       IN IF ~v.isValid
          THEN [call |-> [resumed EXCEPT
                            !.pc = "done",
                            !.ret = prepare_invalid(call.pdfBuffer, v)],
                lastIndex |-> lastIndex]
          ELSE LET checked == extractTextFromPDF_checks(call.pdfBuffer)
               IN IF checked = NoOutcome
                  THEN [call |-> [resumed EXCEPT !.pc = "parse"],
                        lastIndex |-> lastIndex]
                  ELSE [call |-> [resumed EXCEPT !.pc = "extracted",
                                                 !.awaited = checked],
                        lastIndex |-> lastIndex]
  ELSE LET r == prepare_extracted(call.pdfBuffer, call.options,
                                  call.validation, call.awaited, lastIndex)
       IN [call |-> [call EXCEPT !.pc = "done", !.awaited = NoOutcome,
                                 !.ret = r.ret],
           lastIndex |-> r.lastIndex]

(***************************************************************************)
(* getPDFSummary                                                           *)
(***************************************************************************)
PreviewLength == 500

\* String.prototype.substring(0, n)
Substring0(s, n) == SubSeq(s, 1, Min(n, Len(s)))

\* the record both failure returns build
FailedSummary(pdfBuffer, error) ==
  [isValid |-> FALSE, pageCount |-> 0,
   fileSize |-> IF IsFalsy(pdfBuffer) THEN 0 ELSE pdfBuffer.length,
   characterCount |-> 0, hasTextLayer |-> FALSE, documentType |-> "Unknown",
   sections |-> <<>>, assessmentYears |-> <<>>, preview |-> <<>>,
   error |-> error]

\* A faulty projection whose preview is the whole text.
getPDFSummary_projected_WholeText(pdfBuffer, prepared) ==
  IF ~prepared.isValid
  THEN Return(FailedSummary(pdfBuffer, prepared.error))
  ELSE Return([isValid |-> TRUE,
               pageCount |-> prepared.pageCount,
               fileSize |-> prepared.fileSize,
               characterCount |-> Len(prepared.text),
               hasTextLayer |-> prepared.hasTextLayer,
               documentType |-> prepared.documentInfo.documentType,
               sections |-> prepared.documentInfo.sections,
               assessmentYears |-> prepared.documentInfo.assessmentYears,
               preview |-> prepared.text,
               error |-> JsNull])

\* the return, once preparePDFForAnalysis has returned prepared
getPDFSummary_projected(pdfBuffer, prepared) ==
  IF ~prepared.isValid
  THEN Return(FailedSummary(pdfBuffer, prepared.error))
  ELSE Return([isValid |-> TRUE,
               pageCount |-> prepared.pageCount,
               fileSize |-> prepared.fileSize,
               characterCount |-> Len(prepared.text),
               hasTextLayer |-> prepared.hasTextLayer,
               documentType |-> prepared.documentInfo.documentType,
               sections |-> prepared.documentInfo.sections,
               assessmentYears |-> prepared.documentInfo.assessmentYears,
               preview |-> Substring0(prepared.text, PreviewLength),
               error |-> JsNull])

\* the outcome, once preparePDFForAnalysis has settled with outcome
getPDFSummary_settled(pdfBuffer, outcome) ==
  IF outcome.kind = "throw"
  THEN Return(FailedSummary(pdfBuffer,
                JsString(<<"Failed to summarize PDF: ">> \o outcome.message)))
  ELSE getPDFSummary_projected(pdfBuffer, outcome.value)

(***************************************************************************)
(* Inputs of the chunker.                                                  *)
(***************************************************************************)
Alphabet == {"a", ".", " ", "\n"}
Strings(n) == UNION {[1..k -> Alphabet] : k \in 0..n}
NonStrings == {[t |-> "null", v |-> <<>>], [t |-> "number", v |-> <<>>]}
TextArgs == {JsString(s) : s \in Strings(MaxTextLen)} \cup NonStrings
OptionValues(max) == {<<>>} \cup {<<n>> : n \in -1..max}
ChunkOptions ==
  [chunkSize : OptionValues(MaxChunkSize), overlap : OptionValues(MaxOverlap)]

(***************************************************************************)
(* Inputs of the chunker when its loop runs one iteration at a time.       *)
(***************************************************************************)
MaxLoopTextLen == 4
LoopTextArgs == {JsString(s) : s \in Strings(MaxLoopTextLen)} \cup NonStrings
\* calls with a chunkSize large enough for a break to end a chunk early:
\* 40 characters with a sentence or paragraph break at offset 12 (below
\* 0.7 x 20) or 15 (above), or a sentence break at 15 and a paragraph break
\* at 17
SnapTexts ==
  {[i \in 1..n |-> "a"] \o brk \o [i \in 1..(38 - n) |-> "a"] :
     n \in {12, 15}, brk \in {SentenceBreak, ParagraphBreak}}
  \cup {[i \in 1..15 |-> "a"] \o SentenceBreak \o ParagraphBreak
        \o [i \in 1..21 |-> "a"]}
SnapCalls ==
  {[text |-> JsString(t), options |-> [chunkSize |-> <<20>>, overlap |-> <<v>>]] :
     t \in SnapTexts, v \in {3, 17, 19}}
\* calls with a chunkSize of 90, for which 90 * 0.7 is a double below 63,
\* on 125 characters with a sentence or paragraph break at offset 63 or 64
RoundedCalls ==
  {[text |-> JsString([i \in 1..n |-> "a"] \o brk \o [i \in 1..(123 - n) |-> "a"]),
    options |-> [chunkSize |-> <<90>>, overlap |-> <<10>>]] :
     n \in {63, 64}, brk \in {SentenceBreak, ParagraphBreak}}
\* calls with a chunkSize above the default overlap, on a text one
\* character longer than the chunkSize
WideCalls ==
  {[text |-> JsString([i \in 1..(DEFAULT_CHUNK_OVERLAP + 2) |-> "a"]),
    options |-> [chunkSize |-> <<DEFAULT_CHUNK_OVERLAP + 1>>, overlap |-> v]] :
     v \in {<<>>, <<0>>, <<1>>}}
LoopCalls ==
  {[text |-> t, options |-> o] : t \in LoopTextArgs, o \in ChunkOptions}
  \cup SnapCalls \cup RoundedCalls \cup WideCalls

(***************************************************************************)
(* Inputs of the pipeline, and the outcomes of the two library calls.      *)
(***************************************************************************)
MaxPages == 1
MaxParsedLen == 3
MaxPipelineOption == 2

Heads == {<<>>, <<"%">>, <<"%", "P", "D", "F">>, PDF_MAGIC,
          <<"<", "h", "t", "m", "l", ">">>,
          <<"%", "P", "D", "F", "-", "1", ".", "7">>,
          <<"%", "p", "d", "f", "-", "1", ".", "7">>,
          <<" ", "%", "P", "D", "F", "-", "1", ".">>,
          <<"U+00A5", "U+00D0", "U+00C4", "U+00C6", "U+00AD", "1", ".", "7">>}
BufferLengths == {0, 1, 4, 5, 6, 40, MAX_PDF_SIZE, MAX_PDF_SIZE + 1}
Buffers ==
  {[t |-> "buffer", length |-> n, head |-> h] :
     <<n, h>> \in {x \in BufferLengths \X Heads : Len(x[2]) = Min(8, x[1])}}
NonBuffers == {[t |-> "null", length |-> 0, head |-> <<>>],
               [t |-> "string", length |-> 3, head |-> <<>>]}
BufferArgs == Buffers \cup NonBuffers

PrepareOptions ==
  [chunkSize : OptionValues(MaxPipelineOption),
   overlap : OptionValues(MaxPipelineOption)] \cup {NullOptions}

\* messages of the errors the libraries throw
LibraryMessages == {<<"Invalid", " PDF structure">>, <<"bad XRef entry">>,
                    <<"stream is invalid">>, <<>>}

\* PDFDocument.load(...) followed by getPageCount()
LoadOutcomes ==
  {Return(n) : n \in 0..MaxPages} \cup {Throw(m) : m \in LibraryMessages}

SampleNotice ==
  <<" ", "S", "e", "c", "t", "i", "o", "n", " ", "1", "4", "3", "(", "1", ")",
    " ", "A", ".", "Y", ".", " ", "2", "0", "2", "3", "-", "2", "4", ",", " ",
    "P", "A", "N", " ", "A", "B", "C", "D", "E", "1", "2", "3", "4", "F", ".",
    " ", "T", "o", "t", "a", "l", " ", "i", "n", "c", "o", "m", "e", "\n">>
PipelineAlphabet == {"a", " "}
\* texts around the text-layer threshold: n letters inside whitespace, and
\* a text that reaches the threshold only with its surrounding whitespace
Letters(n) == [i \in 1..n |-> "a"]
ThresholdTexts ==
  {<<" ", "\n">> \o Letters(n) \o <<"\t", " ">> :
     n \in {MIN_TEXT_THRESHOLD - 1, MIN_TEXT_THRESHOLD}}
  \cup {<<" ">> \o Letters(MIN_TEXT_THRESHOLD - 2) \o <<" ">>,
        Letters(MIN_TEXT_THRESHOLD - 2) \o <<" ", "a">>,
        Letters(MIN_TEXT_THRESHOLD - 1) \o <<"\r">>,
        <<"U+FEFF", "U+00A0">> \o Letters(MIN_TEXT_THRESHOLD)
          \o <<"U+2028", "\f", "U+000B">>}
ParsedTexts ==
  UNION {[1..k -> PipelineAlphabet] : k \in 0..MaxParsedLen}
  \cup {SampleNotice} \cup ThresholdTexts
ParsedInfos ==
  {<<>>,
   <<[Title |-> <<<<"Intimation">>>>, Author |-> <<>>,
      Creator |-> <<<<>>>>, Producer |-> <<<<"CPC">>>>]>>}

\* pdfParse(pdfBuffer)
ParseOutcomes ==
  {Return([text |-> t, numpages |-> n, info |-> i]) :
     t \in {<<>>} \cup {<<s>> : s \in ParsedTexts},
     n \in {<<>>} \cup {<<k>> : k \in 0..MaxPages},
     i \in ParsedInfos}
  \cup {Throw(m) : m \in LibraryMessages}

(***************************************************************************)
(* Inputs of extractPageRange, and the outcomes of its library calls.      *)
(***************************************************************************)
MaxPageArg == 3
MaxTotalPages == 2

PageArgs == {[t |-> "integer", v |-> n] : n \in -1..MaxPageArg}
            \cup {[t |-> "fraction", v |-> 1], [t |-> "string", v |-> 2]}
PageRangeBuffers ==
  {b \in BufferArgs : b.length \in {0, 3, 40}}
PageRangeMessages ==
  LibraryMessages \cup {<<"indices ", "must be", " of type Array">>}
PageRangeFailures == {Throw(m) : m \in PageRangeMessages}

\* PDFDocument.load(pdfBuffer, ...) followed by getPageCount(); bytes
\* too few to hold a header do not load
PageRangeLoadOutcomes(pdfBuffer) ==
  IF pdfBuffer.length < Len(PDF_MAGIC) THEN PageRangeFailures
  ELSE {Return(n) : n \in 0..MaxTotalPages} \cup PageRangeFailures

\* PDFDocument.create(): an empty document
CreateOutcomes == {Return(<<>>)} \cup PageRangeFailures

\* newPdf.copyPages(sourcePdf, pageIndices) on a source of totalPages
\* pages: the copies, in the order of the indices, each named by the index
\* of its original.  An index without a page reads node of undefined.
CopyOutcomes(totalPages, pageIndices) ==
  IF \E k \in 1..Len(pageIndices) : pageIndices[k] \notin 0..(totalPages - 1)
  THEN {Throw(<<"Cannot read properties of undefined (reading 'node')">>)}
  ELSE {Return(pageIndices)} \cup PageRangeFailures

\* newPdf.save()
SaveOutcomes(copiedPages) ==
  {Return([t |-> "buffer", length |-> 40, head |-> PDF_MAGIC,
           pages |-> copiedPages])}
  \cup PageRangeFailures

\* pdfParse(subsetBuffer)
PageRangeParseOutcomes ==
  {Return([text |-> t]) : t \in {<<>>} \cup {<<s>> : s \in ParsedTexts}}
  \cup PageRangeFailures

(***************************************************************************)
(* Inputs of the classifier: texts made of at most MaxFragments of the     *)
(* fragments below, and values that are not strings.                       *)
(***************************************************************************)
MaxFragments == 2

\* 'Section 143(1) '
Intimation143_1 ==
  <<"S", "e", "c", "t", "i", "o", "n", " ", "1", "4", "3", "(", "1", ")",
    " ">>
\* 'section 154 '
Rectification154 ==
  <<"s", "e", "c", "t", "i", "o", "n", " ", "1", "5", "4", " ">>
\* 'SECTION  148A '
Notice148A ==
  <<"S", "E", "C", "T", "I", "O", "N", " ", " ", "1", "4", "8", "A", " ">>
\* 'section148 '
Notice148 ==
  <<"s", "e", "c", "t", "i", "o", "n", "1", "4", "8", " ">>
\* 'income tax '
IncomeTax ==
  <<"i", "n", "c", "o", "m", "e", " ", "t", "a", "x", " ">>
\* 'CBDT '
Cbdt ==
  <<"C", "B", "D", "T", " ">>
\* 'A.Y. 2023-24 '
Year2023 ==
  <<"A", ".", "Y", ".", " ", "2", "0", "2", "3", "-", "2", "4", " ">>
\* 'AY 2023 - 24 '
Year2023Spaced ==
  <<"A", "Y", " ", "2", "0", "2", "3", " ", "-", " ", "2", "4", " ">>
\* 'Assessment Year: 2022-2023 '
Year2022 ==
  <<"A", "s", "s", "e", "s", "s", "m", "e", "n", "t", " ", "Y", "e", "a",
    "r", ":", " ", "2", "0", "2", "2", "-", "2", "0", "2", "3", " ">>
\* 'PAN ABCDE1234F '
Pan ==
  <<"P", "A", "N", " ", "A", "B", "C", "D", "E", "1", "2", "3", "4", "F",
    " ">>
\* 'notice '
Filler ==
  <<"n", "o", "t", "i", "c", "e", " ">>

\* 'section\r143(1) '
Intimation143_1Return ==
  <<"s", "e", "c", "t", "i", "o", "n", "\r", "1", "4", "3", "(", "1", ")",
    " ">>
\* 'section\u00A0154 '
Rectification154NoBreak ==
  <<"s", "e", "c", "t", "i", "o", "n", "U+00A0", "1", "5", "4", " ">>
\* 'AY 2023\u00C224 '
Year2023Circumflex ==
  <<"A", "Y", " ", "2", "0", "2", "3", "U+00C2", "2", "4", " ">>
\* 'CPC & Bengaluru '
CpcBengaluru ==
  <<"C", "P", "C", " ", "&", " ", "B", "e", "n", "g", "a", "l", "u", "r",
    "u", " ">>
\* 'CPC\nBengaluru '
CpcBengaluruTwoLines ==
  <<"C", "P", "C", "\n", "B", "e", "n", "g", "a", "l", "u", "r", "u", " ">>

ClassifierFragments ==
  {Intimation143_1, Rectification154, Notice148A, Notice148,
   IncomeTax, Cbdt, Year2023, Year2023Spaced,
   Year2022, Pan, Filler,
   Intimation143_1Return, Rectification154NoBreak, Year2023Circumflex,
   CpcBengaluru, CpcBengaluruTwoLines}
RECURSIVE Concat(_)
Concat(fs) == IF fs = <<>> THEN <<>> ELSE Head(fs) \o Concat(Tail(fs))
ClassifierTexts ==
  {Concat(fs) : fs \in UNION {[1..k -> ClassifierFragments] : k \in 0..MaxFragments}}
ClassifierTextArgs == {JsString(s) : s \in ClassifierTexts} \cup NonStrings

(***************************************************************************)
(* Inputs of interleaved calls.                                            *)
(***************************************************************************)
MaxConcurrent == 2

ConcurrentEntryPoints ==
  {"validatePDF", "extractTextFromPDF", "preparePDFForAnalysis"}
ConcurrentBuffers ==
  {b \in BufferArgs :
     \/ b.t = "null"
     \/ b.t = "buffer" /\ b.length = 40 /\ b.head[1] \in {"%", "<"}}
ConcurrentLoadOutcomes == {Return(1), Throw(<<"bad XRef entry">>)}
ConcurrentParseOutcomes ==
  {Return([text |-> <<t>>, numpages |-> <<1>>, info |-> <<>>]) :
     t \in {SampleNotice, Notice148A \o Pan \o Year2022}}
  \cup {Throw(<<"bad XRef entry">>)}

(***************************************************************************)
(* Inputs of getPDFSummary: texts around the length of the preview.        *)
(***************************************************************************)
SummaryTexts ==
  {<<>>, <<"a">>, SampleNotice, Notice148A \o Pan \o Year2022,
   Rectification154 \o IncomeTax \o Cbdt \o Year2023Spaced \o Year2023,
   [i \in 1..MIN_TEXT_THRESHOLD |-> "a"],
   [i \in 1..(PreviewLength - 1) |-> "a"],
   [i \in 1..PreviewLength |-> "a"],
   [i \in 1..(PreviewLength + 1) |-> "a"],
   SampleNotice \o [i \in 1..PreviewLength |-> "a"]}
SummaryParseOutcomes ==
  {Return([text |-> <<t>>, numpages |-> <<MaxPages>>, info |-> <<>>]) :
     t \in SummaryTexts}
  \cup {Throw(m) : m \in LibraryMessages}

(***************************************************************************)
(* State.                                                                  *)
(*   pc          "idle"; "load" while PDFDocument.load is awaited; "parse" *)
(*               while pdfParse is awaited; "validated", "extracted" or    *)
(*               "prepared" while an awaited function of this module has   *)
(*               settled and its caller has not resumed; "done" once the   *)
(*               call settled                                              *)
(*   fn          the entry point called                                    *)
(*   args        its arguments                                             *)
(*   validation  the validation result preparePDFForAnalysis holds         *)
(*   extraction  the extraction result preparePDFForAnalysis holds         *)
(*   trace       the events of the call in flight, in order                *)
(*   ret         its outcome once pc = "done"                              *)
(*   locals      the other local variables of the call in flight           *)
(*   lastIndex   the cursors of the module-level global patterns           *)
(*   inflight    the calls in flight when several are interleaved          *)
(***************************************************************************)
VARIABLES pc, fn, args, validation, extraction, trace, ret,
          locals, lastIndex, inflight
vars == <<pc, fn, args, validation, extraction, trace, ret,
          locals, lastIndex, inflight>>

NoArgs == [none |-> TRUE]
NoValidation == [none |-> TRUE]
NoExtraction == [none |-> TRUE]
NoLocals == [none |-> TRUE]
NoCalls == <<>>

Init ==
  /\ pc = "idle"
  /\ fn = "none"
  /\ args = NoArgs
  /\ validation = NoValidation
  /\ extraction = NoExtraction
  /\ trace = <<>>
  /\ ret = NoOutcome
  /\ locals = NoLocals
  /\ lastIndex = InitialLastIndex
  /\ inflight = NoCalls

CallChunkText ==
  /\ pc = "idle"
  /\ \E text \in TextArgs, options \in ChunkOptions :
       /\ fn' = "chunkText"
       /\ args' = [text |-> text, options |-> options]
       /\ ret' = chunkText(text, options)
       /\ pc' = "done"
  /\ UNCHANGED <<validation, extraction, trace, locals, lastIndex, inflight>>

\* the event a settled library call leaves, if it threw
Settled(name, outcome) ==
  IF outcome.kind = "throw" THEN <<Threw(name, outcome.message)>> ELSE <<>>

CallValidatePDF ==
  /\ pc = "idle"
  /\ \E pdfBuffer \in BufferArgs :
       LET checked == validatePDF_checks(pdfBuffer)
       IN /\ fn' = "validatePDF"
          /\ args' = [pdfBuffer |-> pdfBuffer]
          /\ IF checked = NoOutcome
             THEN /\ pc' = "load"
                  /\ trace' = <<Call("PDFDocument.load", pdfBuffer)>>
                  /\ ret' = NoOutcome
             ELSE /\ pc' = "done"
                  /\ trace' = <<>>
                  /\ ret' = checked
  /\ UNCHANGED <<validation, extraction, locals, lastIndex, inflight>>

ValidateLoadSettles ==
  /\ pc = "load" /\ fn = "validatePDF"
  /\ \E loaded \in LoadOutcomes :
       /\ ret' = Return(validatePDF_loaded(args.pdfBuffer, loaded))
       /\ trace' = trace \o Settled("PDFDocument.load", loaded)
  /\ pc' = "done"
  /\ UNCHANGED <<fn, args, validation, extraction, locals, lastIndex, inflight>>

CallExtractTextFromPDF ==
  /\ pc = "idle"
  /\ \E pdfBuffer \in BufferArgs :
       LET checked == extractTextFromPDF_checks(pdfBuffer)
       IN /\ fn' = "extractTextFromPDF"
          /\ args' = [pdfBuffer |-> pdfBuffer]
          /\ IF checked = NoOutcome
             THEN /\ pc' = "parse"
                  /\ trace' = <<Call("pdfParse", pdfBuffer)>>
                  /\ ret' = NoOutcome
             ELSE /\ pc' = "done"
                  /\ trace' = <<>>
                  /\ ret' = checked
  /\ UNCHANGED <<validation, extraction, locals, lastIndex, inflight>>

ExtractParseSettles ==
  /\ pc = "parse" /\ fn = "extractTextFromPDF"
  /\ \E parsed \in ParseOutcomes :
       /\ ret' = extractTextFromPDF_parsed(parsed)
       /\ trace' = trace \o Settled("pdfParse", parsed)
  /\ pc' = "done"
  /\ UNCHANGED <<fn, args, validation, extraction, locals, lastIndex, inflight>>

(***************************************************************************)
(* preparePDFForAnalysis, one action per callback.  The call runs          *)
(* validatePDF up to its return or its awaited load and then awaits        *)
(* validatePDF; while a function that preparePDFForAnalysis awaits has     *)
(* settled and preparePDFForAnalysis has not yet resumed, locals holds the *)
(* outcome of that function.                                               *)
(***************************************************************************)
Awaited(outcome) == [awaited |-> outcome]

CallPrepare ==
  /\ pc = "idle"
  /\ \E pdfBuffer \in BufferArgs, options \in PrepareOptions :
       LET checked == validatePDF_checks(pdfBuffer)
           called == <<Call("validatePDF", pdfBuffer)>>
       IN /\ fn' = "preparePDFForAnalysis"
          /\ args' = [pdfBuffer |-> pdfBuffer, options |-> options]
          /\ IF checked = NoOutcome
             THEN /\ pc' = "load"
                  /\ trace' = called \o <<Call("PDFDocument.load", pdfBuffer)>>
                  /\ UNCHANGED locals
             ELSE /\ pc' = "validated"
                  /\ trace' = called
                  /\ locals' = Awaited(checked)
  /\ UNCHANGED <<validation, extraction, ret, lastIndex, inflight>>

\* PDFDocument.load settles: validatePDF resumes and returns its record
PrepareLoadSettles ==
  /\ pc = "load" /\ fn = "preparePDFForAnalysis"
  /\ \E loaded \in LoadOutcomes :
       /\ locals' = Awaited(Return(validatePDF_loaded(args.pdfBuffer, loaded)))
       /\ trace' = trace \o Settled("PDFDocument.load", loaded)
  /\ pc' = "validated"
  /\ UNCHANGED <<fn, args, validation, extraction, ret, lastIndex, inflight>>

\* preparePDFForAnalysis resumes with the record of validatePDF: it
\* returns the invalid document, or calls extractTextFromPDF, which throws
\* at once or awaits pdfParse, and awaits it
PrepareValidated ==
  /\ pc = "validated" /\ fn = "preparePDFForAnalysis"
  /\ validation' = locals.awaited.value
  /\ IF ~locals.awaited.value.isValid
     THEN /\ pc' = "done"
          /\ ret' = prepare_invalid(args.pdfBuffer, locals.awaited.value)
          /\ locals' = NoLocals
          /\ UNCHANGED trace
     ELSE LET checked == extractTextFromPDF_checks(args.pdfBuffer)
              called == trace \o <<Call("extractTextFromPDF", args.pdfBuffer)>>
          IN IF checked = NoOutcome
             THEN /\ pc' = "parse"
                  /\ trace' = called \o <<Call("pdfParse", args.pdfBuffer)>>
                  /\ locals' = NoLocals
                  /\ UNCHANGED ret
             ELSE /\ pc' = "extracted"
                  /\ trace' = called
                  /\ locals' = Awaited(checked)
                  /\ UNCHANGED ret
  /\ UNCHANGED <<fn, args, extraction, lastIndex, inflight>>

\* pdfParse settles: extractTextFromPDF resumes and returns or throws
PrepareParseSettles ==
  /\ pc = "parse" /\ fn = "preparePDFForAnalysis"
  /\ \E parsed \in ParseOutcomes :
       /\ locals' = Awaited(extractTextFromPDF_parsed(parsed))
       /\ trace' = trace \o Settled("pdfParse", parsed)
  /\ pc' = "extracted"
  /\ UNCHANGED <<fn, args, validation, extraction, ret, lastIndex, inflight>>

\* preparePDFForAnalysis resumes with the outcome of extractTextFromPDF:
\* the rest of the try block, or the catch block
PrepareExtracted ==
  /\ pc = "extracted" /\ fn = "preparePDFForAnalysis"
  /\ \E r \in {prepare_extracted(args.pdfBuffer, args.options, validation,
                                 locals.awaited, lastIndex)} :
       /\ extraction' = IF locals.awaited.kind = "return"
                        THEN locals.awaited.value ELSE NoExtraction
       /\ trace' = trace \o r.events
       /\ ret' = r.ret
       /\ lastIndex' = r.lastIndex
  /\ pc' = "done"
  /\ locals' = NoLocals
  /\ UNCHANGED <<fn, args, validation, inflight>>

(***************************************************************************)
(* extractPageRange: the call up to the awaited load, then one action per  *)
(* awaited library call: load, create, copyPages, save, pdfParse.          *)
(***************************************************************************)
CallExtractPageRange ==
  /\ pc = "idle"
  /\ \E pdfBuffer \in PageRangeBuffers, startPage \in PageArgs, endPage \in PageArgs :
       LET checked == extractPageRange_checks(pdfBuffer, startPage, endPage)
       IN /\ fn' = "extractPageRange"
          /\ args' = [pdfBuffer |-> pdfBuffer, startPage |-> startPage,
                      endPage |-> endPage]
          /\ IF checked = NoOutcome
             THEN /\ pc' = "load"
                  /\ trace' = <<Call("PDFDocument.load", pdfBuffer)>>
                  /\ ret' = NoOutcome
             ELSE /\ pc' = "done"
                  /\ trace' = <<>>
                  /\ ret' = checked
  /\ UNCHANGED <<validation, extraction, locals, lastIndex, inflight>>

PageRangeLoadSettles ==
  /\ pc = "load" /\ fn = "extractPageRange"
  /\ \E loaded \in PageRangeLoadOutcomes(args.pdfBuffer) :
       IF loaded.kind = "throw"
       THEN /\ pc' = "done"
            /\ trace' = trace \o Settled("PDFDocument.load", loaded)
            /\ ret' = extractPageRange_catch(loaded.message)
            /\ UNCHANGED locals
       ELSE LET vs == extractPageRange_clamped(args.startPage.v,
                                               args.endPage.v, loaded.value)
            IN /\ pc' = "create"
               /\ trace' = trace \o <<Call("PDFDocument.create", <<>>)>>
               /\ locals' = vs
               /\ UNCHANGED ret
  /\ UNCHANGED <<fn, args, validation, extraction, lastIndex, inflight>>

PageRangeCreateSettles ==
  /\ pc = "create" /\ fn = "extractPageRange"
  /\ \E created \in CreateOutcomes :
       IF created.kind = "throw"
       THEN /\ pc' = "done"
            /\ trace' = trace \o Settled("PDFDocument.create", created)
            /\ ret' = extractPageRange_catch(created.message)
       ELSE /\ pc' = "copy"
            /\ trace' = trace \o <<Call("copyPages", locals.pageIndices)>>
            /\ UNCHANGED ret
  /\ UNCHANGED <<fn, args, validation, extraction, locals, lastIndex, inflight>>

PageRangeCopySettles ==
  /\ pc = "copy" /\ fn = "extractPageRange"
  /\ \E copied \in CopyOutcomes(locals.totalPages, locals.pageIndices) :
       IF copied.kind = "throw"
       THEN /\ pc' = "done"
            /\ trace' = trace \o Settled("copyPages", copied)
            /\ ret' = extractPageRange_catch(copied.message)
            /\ UNCHANGED locals
       ELSE /\ pc' = "save"
            /\ trace' = trace \o <<Call("save", copied.value)>>
            /\ locals' = [locals EXCEPT !.copiedPages = copied.value]
            /\ UNCHANGED ret
  /\ UNCHANGED <<fn, args, validation, extraction, lastIndex, inflight>>

PageRangeSaveSettles ==
  /\ pc = "save" /\ fn = "extractPageRange"
  /\ \E saved \in SaveOutcomes(locals.copiedPages) :
       IF saved.kind = "throw"
       THEN /\ pc' = "done"
            /\ trace' = trace \o Settled("save", saved)
            /\ ret' = extractPageRange_catch(saved.message)
       ELSE /\ pc' = "parse"
            /\ trace' = trace \o <<Call("pdfParse", saved.value)>>
            /\ UNCHANGED ret
  /\ UNCHANGED <<fn, args, validation, extraction, locals, lastIndex, inflight>>

PageRangeParseSettles ==
  /\ pc = "parse" /\ fn = "extractPageRange"
  /\ \E parsed \in PageRangeParseOutcomes :
       /\ trace' = trace \o Settled("pdfParse", parsed)
       /\ ret' = IF parsed.kind = "throw"
                 THEN extractPageRange_catch(parsed.message)
                 ELSE extractPageRange_parsed(locals, parsed.value)
  /\ pc' = "done"
  /\ UNCHANGED <<fn, args, validation, extraction, locals, lastIndex, inflight>>

(***************************************************************************)
(* detectDocumentType, called by the application itself.  It is            *)
(* synchronous.  ClassifyReturns hands the result to the caller and keeps, *)
(* as the trace of the next call, whether the latest earlier call found    *)
(* PANs and assessment years.                                              *)
(***************************************************************************)
CallDetectDocumentType ==
  /\ pc = "idle"
  /\ \E text \in ClassifierTextArgs :
       \E r \in {detectDocumentType(text, lastIndex)} :
         /\ fn' = "detectDocumentType"
         /\ args' = [text |-> text]
         /\ ret' = Return(r.value)
         /\ lastIndex' = r.lastIndex
  /\ pc' = "done"
  /\ UNCHANGED <<validation, extraction, trace, locals, inflight>>

ClassifyReturns ==
  /\ pc = "done" /\ fn = "detectDocumentType"
  /\ pc' = "idle"
  /\ fn' = "none"
  /\ args' = NoArgs
  /\ ret' = NoOutcome
  /\ trace' = <<Returned("detectDocumentType",
                         [panNumbers |-> ret.value.panNumbers # <<>>,
                          assessmentYears |-> ret.value.assessmentYears # <<>>])>>
  /\ UNCHANGED <<validation, extraction, locals, lastIndex, inflight>>

(***************************************************************************)
(* Interleaved calls.  A call begins while the calls in flight are all     *)
(* suspended, so the calls in inflight overlap; each awaited library call  *)
(* settles in any order; a settled call is collected by its caller.        *)
(***************************************************************************)
ConcurrentCall ==
  /\ pc = "idle"
  /\ Len(inflight) < MaxConcurrent
  /\ \A i \in 1..Len(inflight) : inflight[i].pc # "done"
  /\ \E name \in ConcurrentEntryPoints, pdfBuffer \in ConcurrentBuffers :
       inflight' = Append(inflight, Begin(name, pdfBuffer, DefaultOptions))
  /\ UNCHANGED <<pc, fn, args, validation, extraction, trace, ret, locals,
                 lastIndex>>

ConcurrentLoadSettles ==
  /\ \E i \in 1..Len(inflight) :
       /\ inflight[i].pc = "load"
       /\ \E loaded \in ConcurrentLoadOutcomes :
            inflight' = [inflight EXCEPT ![i] = LoadSettled(@, loaded)]
  /\ UNCHANGED <<pc, fn, args, validation, extraction, trace, ret, locals,
                 lastIndex>>

ConcurrentParseSettles ==
  /\ \E i \in 1..Len(inflight) :
       /\ inflight[i].pc = "parse"
       /\ \E parsed \in ConcurrentParseOutcomes :
            \E extracted \in {extractTextFromPDF_parsed(parsed)} :
              inflight' = [inflight EXCEPT
                             ![i] = ParseSettled(@, parsed, extracted)]
  /\ UNCHANGED <<pc, fn, args, validation, extraction, trace, ret, locals,
                 lastIndex>>

\* a call of preparePDFForAnalysis resumes after one of its awaits
ConcurrentResumes ==
  /\ \E i \in 1..Len(inflight) :
       /\ inflight[i].pc \in {"validated", "extracted"}
       /\ \E r \in {Resumed(inflight[i], lastIndex)} :
            /\ inflight' = [inflight EXCEPT ![i] = r.call]
            /\ lastIndex' = r.lastIndex
  /\ UNCHANGED <<pc, fn, args, validation, extraction, trace, ret, locals>>

ConcurrentCollect ==
  /\ \E i \in 1..Len(inflight) :
       /\ inflight[i].pc = "done"
       /\ inflight' = SubSeq(inflight, 1, i - 1)
                      \o SubSeq(inflight, i + 1, Len(inflight))
  /\ UNCHANGED <<pc, fn, args, validation, extraction, trace, ret, locals,
                 lastIndex>>

(***************************************************************************)
(* getPDFSummary: it awaits preparePDFForAnalysis(pdfBuffer), which locals *)
(* holds as a call of its own, and resumes, in a callback of its own, once *)
(* that call has settled (pc = "prepared").                                *)
(***************************************************************************)
SummaryAwaits(prepare) ==
  /\ locals' = prepare
  /\ pc' = IF prepare.pc = "done" THEN "prepared" ELSE prepare.pc

CallSummary ==
  /\ pc = "idle"
  /\ \E pdfBuffer \in BufferArgs :
       /\ fn' = "getPDFSummary"
       /\ args' = [pdfBuffer |-> pdfBuffer]
       /\ SummaryAwaits(Begin("preparePDFForAnalysis", pdfBuffer, DefaultOptions))
  /\ UNCHANGED <<validation, extraction, trace, ret, lastIndex, inflight>>

SummaryLoadSettles ==
  /\ pc = "load" /\ fn = "getPDFSummary"
  /\ \E loaded \in LoadOutcomes : SummaryAwaits(LoadSettled(locals, loaded))
  /\ UNCHANGED <<fn, args, validation, extraction, trace, ret, lastIndex,
                 inflight>>

SummaryParseSettles ==
  /\ pc = "parse" /\ fn = "getPDFSummary"
  /\ \E parsed \in SummaryParseOutcomes :
       \E extracted \in {extractTextFromPDF_parsed(parsed)} :
         SummaryAwaits(ParseSettled(locals, parsed, extracted))
  /\ UNCHANGED <<fn, args, validation, extraction, trace, ret, lastIndex,
                 inflight>>

\* the awaited preparePDFForAnalysis resumes after one of its awaits
SummaryPrepareResumes ==
  /\ pc \in {"validated", "extracted"} /\ fn = "getPDFSummary"
  /\ \E r \in {Resumed(locals, lastIndex)} :
       /\ SummaryAwaits(r.call)
       /\ lastIndex' = r.lastIndex
  /\ UNCHANGED <<fn, args, validation, extraction, trace, ret, inflight>>

\* getPDFSummary resumes with the outcome of preparePDFForAnalysis
SummaryPrepared ==
  /\ pc = "prepared" /\ fn = "getPDFSummary"
  /\ ret' = getPDFSummary_settled(args.pdfBuffer, locals.ret)
  /\ pc' = "done"
  /\ UNCHANGED <<fn, args, validation, extraction, trace, locals, lastIndex,
                 inflight>>

(***************************************************************************)
(* chunkText with its while loop run one iteration at a time: locals holds *)
(* start, chunks and the two effective options.                            *)
(***************************************************************************)
ChunkBegin ==
  /\ pc = "idle"
  /\ \E call \in LoopCalls :
       LET text == call.text
           options == call.options
           chunkSize == OrDefault(options.chunkSize, DEFAULT_CHUNK_SIZE)
           overlap == OrDefault(options.overlap, DEFAULT_CHUNK_OVERLAP)
       IN /\ fn' = "chunkText"
          /\ args' = call
          /\ IF \/ text.t # "string" \/ text.v = <<>>
                \/ chunkSize <= 0 \/ overlap >= chunkSize
                \/ Len(text.v) <= chunkSize
             THEN /\ pc' = "done"
                  /\ ret' = chunkText(text, options)
                  /\ locals' = NoLocals
             ELSE /\ pc' = "loop"
                  /\ ret' = NoOutcome
                  /\ locals' = [start |-> 0, chunks |-> <<>>,
                                chunkSize |-> chunkSize, overlap |-> overlap]
  /\ UNCHANGED <<validation, extraction, trace, lastIndex, inflight>>

\* one iteration of while (start < text.length)
ChunkStep ==
  /\ pc = "loop" /\ fn = "chunkText"
  /\ locals.start < Len(args.text.v)
  /\ LET end == ChunkEnd(args.text.v, locals.chunkSize, locals.start)
         chunk == [text |-> SubSeq(args.text.v, locals.start + 1, end),
                   index |-> Len(locals.chunks),
                   total |-> 0,
                   startChar |-> locals.start,
                   endChar |-> end]
     IN locals' = [locals EXCEPT
                     !.start = NextStart(end, locals.overlap, locals.start),
                     !.chunks = Append(@, chunk)]
  /\ UNCHANGED <<pc, fn, args, validation, extraction, trace, ret, lastIndex,
                 inflight>>

\* the loop condition fails: fill in the totals and return
ChunkExit ==
  /\ pc = "loop" /\ fn = "chunkText"
  /\ locals.start >= Len(args.text.v)
  /\ ret' = Return(FillTotal(locals.chunks))
  /\ pc' = "done"
  /\ UNCHANGED <<fn, args, validation, extraction, trace, locals, lastIndex,
                 inflight>>

\* the caller takes the outcome; of the call the module keeps only the
\* cursors of its patterns
Finish ==
  /\ pc = "done"
  /\ pc' = "idle"
  /\ fn' = "none"
  /\ args' = NoArgs
  /\ validation' = NoValidation
  /\ extraction' = NoExtraction
  /\ trace' = <<>>
  /\ ret' = NoOutcome
  /\ locals' = NoLocals
  /\ UNCHANGED <<lastIndex, inflight>>

(***************************************************************************)
(* Properties of the chunker.                                              *)
(***************************************************************************)
ChunkCallDone == pc = "done" /\ fn = "chunkText"
NonEmptyText == args.text.t = "string" /\ args.text.v # <<>>
Accepted == ChunkCallDone /\ NonEmptyText /\ ret.kind = "return"

Covers(chunks, n) ==
  /\ chunks # <<>>
  /\ chunks[1].startChar = 0
  /\ chunks[Len(chunks)].endChar = n
  /\ \A i \in 1..(Len(chunks) - 1) : chunks[i + 1].startChar <= chunks[i].endChar

\* C1: every accepted call on a non-empty text returns chunks that cover
\* [0, len(text)) without gaps: the first starts at 0, the last ends at
\* len(text), and each chunk starts no later than its predecessor ends.
C1_ChunkCoverage ==
  Accepted => Covers(ret.value, Len(args.text.v))

EffectiveChunkSize == OrDefault(args.options.chunkSize, DEFAULT_CHUNK_SIZE)
Supplied(opt) == opt # <<>>
NoBreaks(s) ==
  /\ LastIndexOf(s, ParagraphBreak, Len(s)) = -1
  /\ LastIndexOf(s, SentenceBreak, Len(s)) = -1
CeilDiv(a, b) == (a + b - 1) \div b

\* C2: on a text without paragraph or sentence break that is longer than
\* chunkSize, with 0 < overlap < chunkSize, the call returns exactly
\* ceil((len - overlap) / (chunkSize - overlap)) chunks, each starting
\* chunkSize - overlap after the previous one, the last ending at len.
C2_UnbrokenTextChunkCount ==
  (/\ ChunkCallDone /\ NonEmptyText
   /\ NoBreaks(args.text.v)
   /\ Supplied(args.options.chunkSize) /\ Supplied(args.options.overlap)
   /\ 0 < args.options.overlap[1]
   /\ args.options.overlap[1] < args.options.chunkSize[1]
   /\ Len(args.text.v) > args.options.chunkSize[1])
  => LET chunkSize == args.options.chunkSize[1]
         overlap == args.options.overlap[1]
         n == Len(args.text.v)
     IN /\ ret.kind = "return"
        /\ Len(ret.value) = CeilDiv(n - overlap, chunkSize - overlap)
        /\ \A i \in 1..(Len(ret.value) - 1) :
             ret.value[i + 1].startChar
               = ret.value[i].startChar + chunkSize - overlap
        /\ ret.value[Len(ret.value)].endChar = n

\* C3: every chunk of an accepted call is at most chunkSize characters
\* long, boundary-snapped chunks included.
C3_ChunkWithinChunkSize ==
  Accepted =>
    \A i \in 1..Len(ret.value) :
      ret.value[i].endChar - ret.value[i].startChar <= EffectiveChunkSize

\* C4: on a non-empty text the call raises whenever the supplied chunkSize
\* is <= 0 (0 included) and whenever the supplied overlap is >= the
\* supplied chunkSize.
C4_ChunkOptionsRejected ==
  (/\ ChunkCallDone /\ NonEmptyText
   /\ Supplied(args.options.chunkSize)
   /\ \/ args.options.chunkSize[1] <= 0
      \/ /\ Supplied(args.options.overlap)
         /\ args.options.overlap[1] >= args.options.chunkSize[1])
  => ret.kind = "throw"

\* the value of a parameter of the contract: the supplied one, the default
\* when it is omitted
Parameter(opt, dflt) == IF Supplied(opt) THEN opt[1] ELSE dflt

\* C19: on a non-empty text with len(text) <= chunkSize and
\* overlap < chunkSize (each the supplied value, or the default when
\* omitted) the call returns exactly one chunk: the whole text, index 0,
\* total 1, startChar 0, endChar len(text).
C19_ChunkFastPath ==
  (/\ ChunkCallDone /\ NonEmptyText
   /\ Len(args.text.v)
        <= Parameter(args.options.chunkSize, DEFAULT_CHUNK_SIZE)
   /\ Parameter(args.options.overlap, DEFAULT_CHUNK_OVERLAP)
        < Parameter(args.options.chunkSize, DEFAULT_CHUNK_SIZE))
  => ret = Return(<<[text |-> args.text.v, index |-> 0, total |-> 1,
                     startChar |-> 0, endChar |-> Len(args.text.v)]>>)

\* C20: in every non-empty result the chunk at (0-based) position i has
\* index i, every total is the number of chunks returned, and every
\* chunk's text is text[startChar:endChar].
C20_ChunkNumbering ==
  (ChunkCallDone /\ ret.kind = "return" /\ ret.value # <<>>) =>
    \A i \in 1..Len(ret.value) :
      /\ ret.value[i].index = i - 1
      /\ ret.value[i].total = Len(ret.value)
      /\ ret.value[i].text
           = SubSeq(args.text.v, ret.value[i].startChar + 1,
                    ret.value[i].endChar)

\* C20 witness: at least three chunks, the second overlapping the first
\* and the first snapped to a sentence break.
C20_Witness ==
  /\ ChunkCallDone /\ ret.kind = "return"
  /\ Len(ret.value) >= 3
  /\ ret.value[3].index = 2
  /\ ret.value[3].total = Len(ret.value)
  /\ ret.value[2].startChar < ret.value[1].endChar
  /\ ret.value[1].text = <<"a", ".", " ">>

\* C23: for an empty or non-string text the call returns the empty list and
\* raises nothing, whatever the options, those rejected on a non-empty
\* text included.
C23_EmptyTextNoChunks ==
  (ChunkCallDone /\ ~NonEmptyText) => ret = Return(<<>>)

\* C23 witness: the empty string with a negative chunkSize, and a
\* non-string with an overlap above the chunkSize, both gave [].
C23_Witness ==
  /\ ChunkCallDone /\ ret = Return(<<>>)
  /\ \/ /\ args.text = JsString(<<>>)
        /\ args.options.chunkSize = <<-1>>
     \/ /\ args.text.t = "number"
        /\ args.options.chunkSize = <<1>> /\ args.options.overlap = <<2>>

\* the chunks the loop has emitted so far, or returned
Emitted ==
  IF fn = "chunkText" /\ pc = "loop" THEN locals.chunks
  ELSE IF ChunkCallDone /\ ret.kind = "return" THEN ret.value
  ELSE <<>>

Progressing ==
  /\ \A i \in 1..Len(Emitted) : Emitted[i].startChar < Emitted[i].endChar
  /\ \A i \in 1..(Len(Emitted) - 1) :
       Emitted[i].startChar < Emitted[i + 1].startChar
  /\ (fn = "chunkText" /\ pc = "loop" /\ Emitted # <<>>) =>
       locals.start > Emitted[Len(Emitted)].startChar

\* C25: when overlap (the supplied value, or the default when omitted) is
\* >= 0, every chunk of a result starts at most overlap characters before
\* the end of its predecessor: exactly overlap when the predecessor is
\* longer than overlap characters, exactly 0 otherwise.
C25_OverlapAmount ==
  (/\ ChunkCallDone /\ ret.kind = "return"
   /\ Parameter(args.options.overlap, DEFAULT_CHUNK_OVERLAP) >= 0) =>
    LET overlap == Parameter(args.options.overlap, DEFAULT_CHUNK_OVERLAP)
        chunks == ret.value
    IN \A i \in 1..(Len(chunks) - 1) :
         chunks[i].endChar - chunks[i + 1].startChar
           = IF chunks[i].endChar - chunks[i].startChar > overlap
             THEN overlap ELSE 0

\* pat occurs in s at offset p
BreakAt(s, pat, p) ==
  p >= 0 /\ p + Len(pat) <= Len(s) /\ SubSeq(s, p + 1, p + Len(pat)) = pat
\* p lies more than 0.7 x chunkSize after start
Beyond70(p, start, chunkSize) == 10 * p > 10 * start + 7 * chunkSize

\* C26: every chunk that does not end at the end of the text is longer
\* than 0.7 x chunkSize, and its end is start + chunkSize or the position
\* just past a paragraph or sentence break at an offset greater than
\* start + 0.7 x chunkSize; a paragraph break there is preferred to a
\* sentence break.
C26_SnapKeepsSeventyPercent ==
  (ChunkCallDone /\ ret.kind = "return") =>
    \A i \in 1..Len(ret.value) :
      LET s == args.text.v
          start == ret.value[i].startChar
          end == ret.value[i].endChar
          chunkSize == EffectiveChunkSize
          paragraphs == {p \in 0..Min(start + chunkSize, Len(s)) :
                           /\ BreakAt(s, <<"\n", "\n">>, p)
                           /\ Beyond70(p, start, chunkSize)}
          sentences == {p \in 0..Min(start + chunkSize, Len(s)) :
                          /\ BreakAt(s, <<".", " ">>, p)
                          /\ Beyond70(p, start, chunkSize)}
      IN end < Len(s) =>
           /\ 10 * (end - start) > 7 * chunkSize
           /\ \/ end = start + chunkSize
              \/ \E p \in paragraphs \cup sentences : end = p + 2
           /\ paragraphs # {} => \E p \in paragraphs : end = p + 2

\* C27: on a text longer than chunkSize, with accepted options, every
\* chunk after the first ends strictly later than its predecessor, and no
\* chunk follows one that ends at len(text).
C27_NoRedundantChunk ==
  (Accepted /\ Len(args.text.v) > EffectiveChunkSize) =>
    \A i \in 1..(Len(ret.value) - 1) :
      /\ ret.value[i + 1].endChar > ret.value[i].endChar
      /\ ret.value[i].endChar # Len(args.text.v)

\* C24: for every text and every accepted (chunkSize, overlap) the loop
\* terminates, every chunk emitted is non-empty (startChar < endChar) and
\* startChar increases strictly from each chunk to the next, also when
\* overlap is at least the length of the chunk just emitted.
C24_ChunkerTerminates ==
  /\ []Progressing
  /\ (fn = "chunkText" /\ pc = "loop") ~> (fn = "chunkText" /\ pc = "done")

\* C24 witness: a call returned three chunks or more, the guard having
\* fired after a chunk no longer than overlap, and they are the chunks the
\* loop gives when it is run in one piece.
C24_Witness ==
  /\ ChunkCallDone /\ ret.kind = "return"
  /\ locals # NoLocals
  /\ Len(ret.value) >= 3
  /\ locals.overlap > 0
  /\ \E i \in 1..(Len(ret.value) - 1) :
       /\ ret.value[i].endChar - ret.value[i].startChar <= locals.overlap
       /\ ret.value[i + 1].startChar = ret.value[i].endChar
  /\ ret = chunkText(args.text, args.options)

(***************************************************************************)
(* Properties of the validator.                                            *)
(***************************************************************************)
ValidateDone == pc = "done" /\ fn = "validatePDF"
LoadCalled == \E i \in 1..Len(trace) : trace[i] = Call("PDFDocument.load", args.pdfBuffer)
StartsWithMagic(b) ==
  /\ Len(b.head) >= 5
  /\ b.head[1] = "%" /\ b.head[2] = "P" /\ b.head[3] = "D"
  /\ b.head[4] = "F" /\ b.head[5] = "-"

\* C5: validatePDF never raises, and in the record it returns exactly one
\* of isValid = true and error # null holds.
C5_ValidatorTotal ==
  ValidateDone =>
    /\ ret.kind = "return"
    /\ ret.value.isValid \in BOOLEAN
    /\ ret.value.isValid <=> ret.value.error = JsNull

\* C5 witness: a structural-load failure came back as a record
C5_Witness ==
  /\ ValidateDone /\ LoadCalled
  /\ ret.kind = "return" /\ ~ret.value.isValid /\ ret.value.error # JsNull

\* C6: the checks run in the order type, empty, oversize, header, load and
\* stop at the first failure: the error is that of the earliest failing
\* check, and PDFDocument.load is called only for a non-empty Buffer of at
\* most MAX_PDF_SIZE bytes whose first 5 bytes are %PDF-.
C6_ValidatorOrder ==
  (fn \in {"validatePDF", "preparePDFForAnalysis"} /\ pc # "idle") =>
    LET b == args.pdfBuffer
        loadable == /\ b.t = "buffer" /\ b.length > 0
                    /\ b.length <= 50 * 1024 * 1024 /\ StartsWithMagic(b)
    IN /\ LoadCalled <=> loadable
       /\ ValidateDone =>
            LET error == ret.value.error
            IN IF b.t # "buffer"
               THEN error = JsString(<<"Input must be a Buffer containing PDF data">>)
               ELSE IF b.length = 0
               THEN error = JsString(<<"PDF buffer is empty">>)
               ELSE IF b.length > 50 * 1024 * 1024
               THEN error.t = "string" /\ Head(error.v) = "File size ("
               ELSE IF ~StartsWithMagic(b)
               THEN error = JsString(<<"File does not have a valid PDF header. Ensure this is a PDF file.">>)
               ELSE \/ error = JsNull
                    \/ /\ error.t = "string"
                       /\ Head(error.v) = "PDF structure is corrupted or unreadable: "

(***************************************************************************)
(* Properties of the extractor.                                            *)
(***************************************************************************)
ExtractDone == pc = "done" /\ fn = "extractTextFromPDF"

\* C10: whenever pdfParse throws, whatever the message, the caller of
\* extractTextFromPDF gets an error whose message is 'Failed to parse PDF: '
\* followed by the message pdfParse threw with.
C10_ParseErrorsWrapped ==
  ExtractDone =>
    \A i \in 1..Len(trace) :
      (trace[i].ev = "throw" /\ trace[i].name = "pdfParse")
        => ret = Throw(<<"Failed to parse PDF: ">> \o trace[i].arg)

PrimitiveCalled == \E i \in 1..Len(trace) : trace[i].ev = "call"

\* C21: a buffer of exactly 50*1024*1024 bytes passes the size check of
\* validatePDF and of extractTextFromPDF (validatePDF goes on to the header
\* check: it returns the header error or calls the load, and a buffer that
\* starts with %PDF- is loaded; extractTextFromPDF goes on to pdfParse);
\* a buffer of one byte more fails it before any library call:
\* validatePDF returns isValid false, fileSize = the length, pageCount 0,
\* and extractTextFromPDF throws.
C21_SizeBoundary ==
  (pc = "done" /\ fn \in {"validatePDF", "extractTextFromPDF"}
   /\ args.pdfBuffer.t = "buffer") =>
    LET b == args.pdfBuffer
    IN /\ (b.length = 50 * 1024 * 1024 /\ ValidateDone) =>
            /\ StartsWithMagic(b) => LoadCalled
            /\ ~LoadCalled =>
                 ret.value.error = JsString(<<"File does not have a valid PDF header. Ensure this is a PDF file.">>)
       /\ (b.length = 50 * 1024 * 1024 /\ ExtractDone) =>
            trace[1] = Call("pdfParse", b)
       /\ (b.length = 50 * 1024 * 1024 + 1 /\ ValidateDone) =>
            /\ ~PrimitiveCalled
            /\ ret.kind = "return"
            /\ ret.value.isValid = FALSE
            /\ ret.value.fileSize = 50 * 1024 * 1024 + 1
            /\ ret.value.pageCount = 0
            /\ ret.value.error.t = "string"
            /\ Head(ret.value.error.v) = "File size ("
       /\ (b.length = 50 * 1024 * 1024 + 1 /\ ExtractDone) =>
            /\ ~PrimitiveCalled
            /\ ret.kind = "throw"
            /\ Head(ret.message) = "PDF file size ("

\* C21 witness: a buffer of exactly the maximum with a good header was
\* loaded and found valid.
C21_Witness ==
  /\ ValidateDone /\ LoadCalled
  /\ args.pdfBuffer.length = 50 * 1024 * 1024
  /\ ret.value.isValid /\ ret.value.fileSize = 50 * 1024 * 1024

\* C21, second case: one byte more, good header, rejected for its size.
C21_WitnessOversize ==
  /\ ValidateDone /\ ~LoadCalled
  /\ args.pdfBuffer.length = 50 * 1024 * 1024 + 1
  /\ StartsWithMagic(args.pdfBuffer)
  /\ ~ret.value.isValid /\ ret.value.fileSize = 50 * 1024 * 1024 + 1

\* the results of extractTextFromPDF in the state: the one it returned to
\* the application, the one preparePDFForAnalysis received
Extractions ==
  (IF ExtractDone /\ ret.kind = "return" THEN {ret.value} ELSE {})
  \cup (IF fn = "preparePDFForAnalysis" /\ extraction # NoExtraction
        THEN {extraction} ELSE {})

\* C22: in every result of extractTextFromPDF, hasTextLayer is true exactly
\* when the returned text has at least 50 characters, and the returned
\* text is trimmed: it neither starts nor ends with whitespace.
C22_TextLayerThreshold ==
  \A e \in Extractions :
    /\ e.hasTextLayer <=> Len(e.text) >= 50
    /\ e.text # <<>> =>
         /\ e.text[1] \notin Whitespace
         /\ e.text[Len(e.text)] \notin Whitespace

\* C22 witness: a text of 50 characters, trimmed, has a text layer.
C22_Witness ==
  /\ ExtractDone /\ ret.kind = "return"
  /\ Len(ret.value.text) = 50
  /\ ret.value.hasTextLayer
  /\ ret.value.text[49] = " "

\* C22, second case: 49 characters after trimming, no text layer.
C22_WitnessBelow ==
  /\ ExtractDone /\ ret.kind = "return"
  /\ Len(ret.value.text) = 49
  /\ ~ret.value.hasTextLayer

(***************************************************************************)
(* Properties of the orchestrator.                                         *)
(***************************************************************************)
PrepareDone == pc = "done" /\ fn = "preparePDFForAnalysis"
IsDefaultClassification(d) ==
  /\ d.sections = <<>> /\ d.documentType = "Unknown" /\ d.panNumbers = <<>>
  /\ d.assessmentYears = <<>> /\ d.isIncomeTaxDocument = FALSE
NormalizedFailure(doc, message, pageCount) ==
  /\ doc.isValid = FALSE
  /\ doc.error = JsString(<<"PDF processing failed: ">> \o message)
  /\ doc.text = <<>> /\ doc.chunks = <<>>
  /\ IsDefaultClassification(doc.documentInfo)
  /\ doc.pageCount = pageCount

\* options that chunkText rejects on a non-empty text
RejectedOptions(options) ==
  /\ ~IsNullOptions(options)
  /\ options.chunkSize # <<>> /\ options.overlap # <<>>
  /\ options.chunkSize[1] > 0
  /\ options.overlap[1] >= options.chunkSize[1]

\* C7: preparePDFForAnalysis never raises; when validation passed and a
\* later step throws (pdfParse rejects, the options are null, chunkText
\* rejects the options), it returns isValid false, the error
\* 'PDF processing failed: <message>', empty text and chunks, the default
\* classification and the page count the validator obtained.
C7_PrepareNormalizesErrors ==
  PrepareDone =>
    /\ ret.kind = "return"
    /\ \A i \in 1..Len(trace) :
         /\ trace[i].ev = "catch"
              => /\ validation.isValid
                 /\ NormalizedFailure(ret.value, trace[i].arg, validation.pageCount)
         /\ (trace[i].ev = "throw" /\ trace[i].name = "pdfParse")
              => /\ ret.value.isValid = FALSE
                 /\ \E m \in {trace[i].arg, <<"Failed to parse PDF: ">> \o trace[i].arg} :
                      NormalizedFailure(ret.value, m, validation.pageCount)
    /\ (validation.isValid /\ IsNullOptions(args.options)
        /\ extraction # NoExtraction)
         => ret.value.isValid = FALSE
    /\ (validation.isValid /\ RejectedOptions(args.options)
        /\ extraction # NoExtraction /\ extraction.text # <<>>)
         => NormalizedFailure(ret.value, <<"overlap must be less than chunkSize">>,
                              validation.pageCount)

\* C7 witness: chunkText rejected the options of a valid PDF with pages
C7_Witness ==
  /\ PrepareDone /\ validation.isValid /\ validation.pageCount > 0
  /\ extraction # NoExtraction
  /\ trace[Len(trace)] = Caught(<<"overlap must be less than chunkSize">>)
  /\ ret.value.pageCount = validation.pageCount
  /\ ret.value.pageCount # extraction.pageCount

\* C8: in every document preparePDFForAnalysis returns, isValid = false
\* implies empty text, no chunks, the all-default classification and a
\* non-null error; isValid = true implies error = null.
C8_PreparedDocumentShape ==
  PrepareDone =>
    /\ ret.kind = "return"
    /\ ~ret.value.isValid =>
         /\ ret.value.text = <<>>
         /\ ret.value.chunks = <<>>
         /\ IsDefaultClassification(ret.value.documentInfo)
         /\ ret.value.error # JsNull
    /\ ret.value.isValid => ret.value.error = JsNull

\* C8 witnesses: a document refused by the validator, and (C8_WitnessValid)
\* a valid one with text, chunks and a classification
C8_Witness ==
  /\ PrepareDone /\ ~validation.isValid /\ ~ret.value.isValid
  /\ ret.value.error = validation.error /\ ret.value.error # JsNull
C8_WitnessValid ==
  /\ PrepareDone /\ ret.value.isValid /\ Len(ret.value.chunks) > 1
  /\ ~IsDefaultClassification(ret.value.documentInfo)

\* the calls of the trace, by name
CallNames == SelectSeq(trace, LAMBDA e : e.ev = "call")
PipelineOrder == <<"validatePDF", "PDFDocument.load", "extractTextFromPDF",
                   "pdfParse", "detectDocumentType", "chunkText">>
Rank(name) == CHOOSE k \in 1..Len(PipelineOrder) : PipelineOrder[k] = name

\* C9: preparePDFForAnalysis runs validate, extract, classify, chunk in
\* that order, each at most once; after a failed validation neither the
\* extraction, the classifier nor the chunker is called; the classifier
\* and the chunker are called only on the text of a successful extraction.
C9_PipelineOrder ==
  (fn = "preparePDFForAnalysis") =>
    LET calls == CallNames
    IN /\ \A i \in 1..Len(calls) : calls[i].name \in {PipelineOrder[k] : k \in 1..6}
       /\ calls # <<>> /\ calls[1].name = "validatePDF"
       /\ \A i \in 1..(Len(calls) - 1) : Rank(calls[i].name) < Rank(calls[i + 1].name)
       /\ \A i \in 1..Len(calls) :
            /\ Rank(calls[i].name) >= 3
                 => /\ validation # NoValidation /\ validation.isValid
                    /\ \E j \in 1..(i - 1) : calls[j].name = "validatePDF"
            /\ Rank(calls[i].name) >= 5
                 => /\ extraction # NoExtraction
                    /\ calls[i].arg = JsString(extraction.text)
                    /\ \E j \in 1..(i - 1) : calls[j].name = "pdfParse"
       /\ (pc = "done" /\ ~validation.isValid) => Len(calls) <= 2
       /\ (pc = "done" /\ ret.kind = "return" /\ ret.value.isValid)
            => [i \in 1..Len(calls) |-> calls[i].name]
                 \in {PipelineOrder, SubSeq(PipelineOrder, 1, 4)}

\* C9 witness: all four steps ran on a valid PDF
C9_Witness ==
  /\ PrepareDone /\ ret.value.isValid
  /\ [i \in 1..Len(CallNames) |-> CallNames[i].name] = PipelineOrder
  /\ Len(ret.value.chunks) > 1

(***************************************************************************)
(* Properties of extractPageRange.                                         *)
(***************************************************************************)
PageRangeDone == pc = "done" /\ fn = "extractPageRange"
ThrowEvents == SelectSeq(trace, LAMBDA e : e.ev = "throw")

\* C11: once the four argument checks have passed, every failure of the
\* load, the page copy, the serialization or the text extraction surfaces
\* as 'Failed to extract page range: ' followed by the underlying message.
C11_PageRangeErrorsWrapped ==
  (PageRangeDone /\ ThrowEvents # <<>>)
  => ret = Throw(<<"Failed to extract page range: ">> \o ThrowEvents[1].arg)

\* the indices the page copy was called with
CopiedIndices ==
  SelectSeq(trace, LAMBDA e : e.ev = "call" /\ e.name = "copyPages")

\* C12: a successful call on integers 1 <= startPage <= endPage and a
\* document of totalPages pages returns both bounds clamped to totalPages,
\* has copied exactly the pages startPage' - 1 .. endPage' - 1 in ascending
\* order, and returns pageCount = endPage' - startPage' + 1 with
\* 1 <= startPage' <= endPage' <= totalPages.
C12_PageRangeClamped ==
  (PageRangeDone /\ ret.kind = "return")
  => LET totalPages == locals.totalPages
         s == ret.value.startPage
         t == ret.value.endPage
     IN /\ s = Min(args.startPage.v, totalPages)
        /\ t = Min(args.endPage.v, totalPages)
        /\ 1 <= s /\ s <= t /\ t <= totalPages
        /\ ret.value.pageCount = t - s + 1
        /\ Len(CopiedIndices) = 1
        /\ Len(CopiedIndices[1].arg) = t - s + 1
        /\ \A k \in 1..(t - s + 1) : CopiedIndices[1].arg[k] = s - 1 + (k - 1)
        /\ locals.copiedPages = CopiedIndices[1].arg

\* C29: every index extractPageRange passes to copyPages lies in
\* [0, totalPages - 1], for every loaded document (totalPages >= 0) and
\* accepted page arguments, and the startPage it returns is at least 1.
C29_CopiedIndicesInDocument ==
  (fn = "extractPageRange" /\ pc # "idle") =>
    /\ \A c \in 1..Len(CopiedIndices) :
         \A k \in 1..Len(CopiedIndices[c].arg) :
           /\ 0 <= CopiedIndices[c].arg[k]
           /\ CopiedIndices[c].arg[k] <= locals.totalPages - 1
    /\ (PageRangeDone /\ ret.kind = "return") => ret.value.startPage >= 1

\* C12 witness: a range wholly beyond the end of a two-page document
\* returned the last page.
C12_Witness ==
  /\ PageRangeDone /\ ret.kind = "return"
  /\ locals.totalPages = 2
  /\ args.startPage.v = 3 /\ args.endPage.v = 3
  /\ ret.value.startPage = 2 /\ ret.value.endPage = 2
  /\ ret.value.pageCount = 1

(***************************************************************************)
(* Properties of the classifier.                                           *)
(***************************************************************************)
ClassifyDone == pc = "done" /\ fn = "detectDocumentType"
Catalog == 1..Len(IT_SECTION_PATTERNS)
CatalogMatches(s) == {i \in Catalog : Test(IT_SECTION_PATTERNS[i].pattern, s)}
CatalogIndex(label) == CHOOSE i \in Catalog : IT_SECTION_PATTERNS[i].section = label
First(S) == CHOOSE i \in S : \A j \in S : i <= j

\* C13: sections holds exactly the labels of the catalog entries whose
\* pattern matches the text, in catalog order and without duplicates, and
\* documentType is the type of the first matching entry in catalog order,
\* or 'Unknown' exactly when no entry matches.
C13_SectionsInCatalogOrder ==
  ClassifyDone =>
    LET sections == ret.value.sections
        matching == CatalogMatches(args.text.v)
    IN /\ \A k \in 1..Len(sections) :
            \E i \in matching : IT_SECTION_PATTERNS[i].section = sections[k]
       /\ \A i \in matching :
            \E k \in 1..Len(sections) : sections[k] = IT_SECTION_PATTERNS[i].section
       /\ \A j, k \in 1..Len(sections) :
            j < k => CatalogIndex(sections[j]) < CatalogIndex(sections[k])
       /\ (matching = {}) <=> (ret.value.documentType = "Unknown")
       /\ matching # {} =>
            ret.value.documentType = IT_SECTION_PATTERNS[First(matching)].type

\* C13 witness: section 154 is mentioned before section 143(1); the
\* sections come in catalog order and the type is that of 143(1).
C13_Witness ==
  /\ ClassifyDone
  /\ args.text = JsString(Rectification154 \o Intimation143_1)
  /\ ret.value.sections = <<"143(1)", "154">>
  /\ ret.value.documentType = "Intimation"

KeywordMatches(s) == {k \in 1..Len(itKeywords) : Test(itKeywords[k], s)}
NonEmptyClassified ==
  ClassifyDone /\ args.text.t = "string" /\ args.text.v # <<>>

\* C14: on a non-empty text isIncomeTaxDocument is true exactly when a
\* catalog section matched or at least 2 keyword patterns match.
C14_IncomeTaxHeuristic ==
  NonEmptyClassified =>
    (ret.value.isIncomeTaxDocument
       <=> \/ CatalogMatches(args.text.v) # {}
           \/ Cardinality(KeywordMatches(args.text.v)) >= 2)

\* C14 witness: no section and exactly one keyword, so the flag is false.
C14_Witness ==
  /\ NonEmptyClassified
  /\ CatalogMatches(args.text.v) = {}
  /\ Cardinality(KeywordMatches(args.text.v)) = 1
  /\ ~ret.value.isIncomeTaxDocument

\* C14, second case: one section and no keyword, so the flag is true.
C14_WitnessSection ==
  /\ NonEmptyClassified
  /\ Cardinality(CatalogMatches(args.text.v)) = 1
  /\ KeywordMatches(args.text.v) = {}
  /\ ret.value.isIncomeTaxDocument

\* C15: a text whose only section reference is 'section 148A' yields a
\* sections list that holds exactly that one label.
C15_SingleReferenceSingleLabel ==
  (ClassifyDone /\ args.text = JsString(Notice148A))
  => ret.value.sections = <<"148A">>

\* C16: whatever calls came before, a call returns what a first call on
\* its text returns, and no cursor of a module-level pattern is ever left
\* at a non-initial value.
C16_ClassifierDeterministic ==
  /\ lastIndex = InitialLastIndex
  /\ ClassifyDone =>
       ret = Return(detectDocumentType(args.text, InitialLastIndex).value)

\* C16 witness: a call on a text with a PAN and an assessment year follows
\* an earlier call on a text with a PAN and an assessment year.
C16_Witness ==
  /\ ClassifyDone
  /\ trace # <<>>
  /\ trace[1].arg.panNumbers
  /\ trace[1].arg.assessmentYears
  /\ ret.value.panNumbers = <<SubSeq(Pan, 5, 14)>>
  /\ ret.value.assessmentYears # <<>>

(***************************************************************************)
(* Properties of interleaved calls.                                        *)
(***************************************************************************)
\* the outcome of a call that runs alone from the initial module state and
\* whose library calls settle with loaded and parsed
RunAlone(name, pdfBuffer, options, loaded, parsed) ==
  LET Resume(call) == IF call.pc \in {"validated", "extracted"}
                      THEN Resumed(call, InitialLastIndex).call ELSE call
      begun == Resume(Begin(name, pdfBuffer, options))
      afterLoad == IF begun.pc = "load"
                   THEN Resume(LoadSettled(begun, loaded)) ELSE begun
      afterParse == IF afterLoad.pc = "parse"
                    THEN Resume(ParseSettled(afterLoad, parsed,
                                             extractTextFromPDF_parsed(parsed)))
                    ELSE afterLoad
  IN Resume(afterParse).ret

\* C17: when calls on independent inputs are interleaved at their
\* suspension points, each returns what it returns when run alone, and no
\* call changes the module-level state.
C17_InterleavedCallsIndependent ==
  /\ lastIndex = InitialLastIndex
  /\ \A i \in 1..Len(inflight) :
       inflight[i].pc = "done"
       => inflight[i].ret = RunAlone(inflight[i].fn, inflight[i].pdfBuffer,
                                     inflight[i].options, inflight[i].loaded,
                                     inflight[i].parsed)

\* C17 witness: two overlapping calls of preparePDFForAnalysis, each on a
\* text of its own with a PAN, have both returned a valid document.
C17_Witness ==
  /\ Len(inflight) = 2
  /\ \A i \in 1..2 :
       /\ inflight[i].fn = "preparePDFForAnalysis"
       /\ inflight[i].pc = "done"
       /\ inflight[i].ret.kind = "return"
       /\ inflight[i].ret.value.isValid
       /\ inflight[i].ret.value.documentInfo.panNumbers # <<>>
  /\ inflight[1].ret.value.text # inflight[2].ret.value.text

Contiguous(chunks) ==
  \A i \in 1..(Len(chunks) - 1) : chunks[i + 1].startChar = chunks[i].endChar

\* options {chunkSize > 0, overlap: 0} with a text longer than chunkSize
ZeroOverlapCall(options, s) ==
  /\ Supplied(options.chunkSize) /\ options.chunkSize[1] > 0
  /\ options.overlap = <<0>>
  /\ Len(s) > options.chunkSize[1]

\* C28: a supplied overlap of 0 is honoured: with a chunkSize > 0 and a
\* text longer than chunkSize, chunkText returns, preparePDFForAnalysis
\* returns a valid document, and each chunk starts where the previous one
\* ended.
C28_ZeroOverlapHonoured ==
  /\ (ChunkCallDone /\ args.text.t = "string"
      /\ ZeroOverlapCall(args.options, args.text.v)) =>
       /\ ret.kind = "return"
       /\ Contiguous(ret.value)
  /\ (/\ PrepareDone /\ validation.isValid /\ extraction # NoExtraction
      /\ ~IsNullOptions(args.options)
      /\ ZeroOverlapCall(args.options, extraction.text)) =>
       /\ ret.kind = "return"
       /\ ret.value.isValid
       /\ Contiguous(ret.value.chunks)

\* C30: for a valid PDF whose extraction succeeded and options with
\* overlap >= chunkSize > 0 (each the supplied value, or the default when
\* omitted), preparePDFForAnalysis returns isValid false with the error
\* 'PDF processing failed: overlap must be less than chunkSize', whatever
\* the extracted text, the empty text included.
C30_OptionRejectionIgnoresText ==
  (/\ PrepareDone /\ validation.isValid /\ extraction # NoExtraction
   /\ ~IsNullOptions(args.options)
   /\ Parameter(args.options.chunkSize, DEFAULT_CHUNK_SIZE) > 0
   /\ Parameter(args.options.overlap, DEFAULT_CHUNK_OVERLAP)
        >= Parameter(args.options.chunkSize, DEFAULT_CHUNK_SIZE)) =>
    /\ ret.kind = "return"
    /\ ret.value.isValid = FALSE
    /\ ret.value.error
         = JsString(<<"PDF processing failed: ",
                      "overlap must be less than chunkSize">>)

(***************************************************************************)
(* Properties of getPDFSummary.                                            *)
(***************************************************************************)
SummaryDone == pc = "done" /\ fn = "getPDFSummary"

\* C18: the summary carries isValid and error of the document that
\* preparePDFForAnalysis returned; of a valid document also pageCount,
\* fileSize, hasTextLayer, documentType, sections and assessmentYears, with
\* characterCount = len(text) and preview the prefix of text of length
\* min(500, len(text)); of an invalid one pageCount and characterCount 0,
\* an empty preview, no sections, no assessment years and type 'Unknown'.
C18_SummaryProjectsPrepared ==
  SummaryDone =>
    /\ locals.ret.kind = "return"
    /\ ret.kind = "return"
    /\ LET prepared == locals.ret.value
           summary == ret.value
       IN /\ summary.isValid = prepared.isValid
          /\ summary.error = prepared.error
          /\ prepared.isValid =>
               /\ summary.pageCount = prepared.pageCount
               /\ summary.fileSize = prepared.fileSize
               /\ summary.hasTextLayer = prepared.hasTextLayer
               /\ summary.documentType = prepared.documentInfo.documentType
               /\ summary.sections = prepared.documentInfo.sections
               /\ summary.assessmentYears = prepared.documentInfo.assessmentYears
               /\ summary.characterCount = Len(prepared.text)
               /\ Len(summary.preview) = Min(500, Len(prepared.text))
               /\ \A i \in 1..Len(summary.preview) :
                    summary.preview[i] = prepared.text[i]
          /\ ~prepared.isValid =>
               /\ summary.pageCount = 0
               /\ summary.characterCount = 0
               /\ summary.preview = <<>>
               /\ summary.sections = <<>>
               /\ summary.assessmentYears = <<>>
               /\ summary.documentType = "Unknown"

\* C18 witness: a valid document whose text is longer than the preview.
C18_Witness ==
  /\ SummaryDone
  /\ ret.value.isValid
  /\ ret.value.characterCount > 500
  /\ Len(ret.value.preview) = 500
  /\ ret.value.sections = <<"143(1)">>

\* C18, second case: the catch block of preparePDFForAnalysis was taken,
\* so the summary is invalid although validation counted the pages.
C18_WitnessInvalid ==
  /\ SummaryDone
  /\ ~ret.value.isValid
  /\ locals.ret.value.pageCount > 0
  /\ ret.value.pageCount = 0

NextChunk == CallChunkText \/ Finish
SpecChunk == Init /\ [][NextChunk]_vars

NextPipeline ==
  \/ CallValidatePDF \/ ValidateLoadSettles
  \/ CallExtractTextFromPDF \/ ExtractParseSettles
  \/ CallPrepare \/ PrepareLoadSettles \/ PrepareValidated
  \/ PrepareParseSettles \/ PrepareExtracted
  \/ Finish
SpecPipeline == Init /\ [][NextPipeline]_vars

NextPageRange ==
  \/ CallExtractPageRange \/ PageRangeLoadSettles \/ PageRangeCreateSettles
  \/ PageRangeCopySettles
  \/ PageRangeSaveSettles \/ PageRangeParseSettles
  \/ Finish
SpecPageRange == Init /\ [][NextPageRange]_vars

NextClassify == CallDetectDocumentType \/ ClassifyReturns
SpecClassify == Init /\ [][NextClassify]_vars

NextConcurrent ==
  \/ ConcurrentCall \/ ConcurrentLoadSettles \/ ConcurrentParseSettles
  \/ ConcurrentResumes \/ ConcurrentCollect
SpecConcurrent == Init /\ [][NextConcurrent]_vars

NextChunkLoop == ChunkBegin \/ ChunkStep \/ ChunkExit \/ Finish
SpecChunkLoop ==
  /\ Init /\ [][NextChunkLoop]_vars
  /\ WF_vars(ChunkStep) /\ WF_vars(ChunkExit)

NextSummary ==
  \/ CallSummary \/ SummaryLoadSettles \/ SummaryParseSettles
  \/ SummaryPrepareResumes \/ SummaryPrepared \/ Finish
SpecSummary == Init /\ [][NextSummary]_vars

Next ==
  \/ NextChunk \/ NextPipeline \/ NextPageRange \/ NextClassify
  \/ NextConcurrent \/ NextSummary \/ NextChunkLoop
Spec == Init /\ [][Next]_vars

=============================================================================
